---------------------------- MODULE Spec2Model ----------------------------
(***************************************************************************)
(* Lifecycle of the uptimer back end: the process entry point              *)
(* (initializeApp), the ApplicationBootstrap singleton, the MonitorServer  *)
(* orchestrator and the database connector.                                *)
(*                                                                         *)
(* Node runs one event loop.  An async function runs without interruption  *)
(* up to an await of real I/O (database call, GraphQL sub-server           *)
(* start/stop, socket listen/close, timer); awaits of already settled      *)
(* promises resume in the microtask queue, before any further I/O          *)
(* completion, timer or signal.  So one action of this model is one turn   *)
(* of the event loop: a completion (or a signal delivery) together with    *)
(* all the code it runs up to the next pending I/O.  Every I/O operation   *)
(* of a collaborator (sequelize, ApolloServer, http.Server) may succeed or *)
(* fail; which of several pending operations completes first is free.      *)
(***************************************************************************)
EXTENDS Naturals, Sequences, FiniteSets

\* Number of signal / fatal-error events the environment delivers.
MaxEvents == 2
\* Number of callers of initializeApplication() (caller 1 is initializeApp).
MaxCallers == 2
\* Number of calls of initializeModels() made by modules that use the models.
MaxModelCalls == 2

\* Number of UserService calls, free to overlap.
MaxUserCalls == 2
\* Number of NotificationService calls, free to overlap.
MaxNotificationCalls == 2
UserCalls == 1..MaxUserCalls
NotificationCalls == 1..MaxNotificationCalls
ServiceCalls == UserCalls \cup NotificationCalls

\* A service call that has not been made yet.
IdleCall == [op |-> "none", pc |-> "idle"]

EventKinds == {"SIGTERM", "SIGINT", "uncaughtException", "unhandledRejection"}
NodeEnvs == {"development", "production", "test"}

MainCaller == <<"boot", 1>>
BootTasks == {<<"boot", i>> : i \in 1..MaxCallers}
MsTasks == {<<"ms", e>> : e \in 1..MaxEvents}
AppTasks == {<<"app", e>> : e \in 1..MaxEvents}
ModelTasks == {<<"models", i>> : i \in 1..MaxModelCalls}
Tasks == BootTasks \cup MsTasks \cup AppTasks \cup ModelTasks
Kind(t) == t[1]

VARIABLES
    callers,          \* the boot tasks and model tasks that exist in this run
    envValid,         \* process.env passes envSchema
    nodeEnv,          \* config.NODE_ENV
    pc,               \* per task: the await it is suspended at
    failure,          \* per boot task: the startup step that failed
    stopResult,       \* per task: how its monitorServer.stop() call ended
    dbCloseResult,    \* per task: how its closeDatabase() call ended
    isInitialized,    \* ApplicationBootstrap.isInitialized
    isShuttingDown,   \* MonitorServer.isShuttingDown
    httpListening,    \* httpServer.listening
    appHandlers,      \* initializeApp has registered its process.on handlers
    startupRuns,      \* startup sequences begun (validate, connect, ...)
    dbConnectCalls,   \* sequelize.authenticate() calls
    apolloStartCalls, \* apolloServer.start() calls
    listenCalls,      \* httpServer.listen() calls
    stopCalls,        \* monitorServer.stop() calls
    apolloStopCalls,  \* apolloServer.stop() calls
    httpCloseCalls,   \* httpServer.close() calls
    dbCloseCalls,     \* sequelize.close() calls
    httpClose,        \* state of the socket close: none, pending, done, err
    watchdog,         \* the setTimeout of stop(): unset, armed, fired
    dbClosed,         \* a sequelize.close() has completed successfully
    startResolved,    \* a monitorServer.start() call has resolved
    events,           \* the events delivered, each with what was true at
                      \* delivery: entry-point handlers registered (ready),
                      \* database connection open (dbOpen)
    exit,             \* process.exit: [exited, code, by]
    steps,            \* per boot task: the startup steps begun, in order
    stack,            \* the Express handler stack of this.app, in order
    ormSyncs,         \* the sync options that have reached the ORM
    listenError,      \* error.code of the failed listen, "none" before
    modelsInitialized, \* models/initialize.ts: modelsInitialized
    modelSyncs,       \* the Model.sync() calls initializeModels() issued, in order
    syncCalls,        \* the direct calls of syncDatabase(options), in order,
                      \* each with what it issued and how it ended
    users,            \* the rows of the users table
    notifications,    \* the rows of the Notifications table
    calls,            \* per service call: operation, argument, the await
                      \* it is suspended at, its locals and its result
    pages,            \* the last getUsers / getNotifications call: query,
                      \* count, offset and the pagination returned (a set:
                      \* empty before the first call)
    lastResponse,     \* the last HTTP request served with its response
                      \* (a set: empty before the first request)
    serverInfo        \* the last snapshot getServerInfo() returned
                      \* (a set: empty before the first call)

vars == <<callers, envValid, nodeEnv, pc, failure, stopResult, dbCloseResult,
          isInitialized, isShuttingDown, httpListening, appHandlers,
          startupRuns, dbConnectCalls, apolloStartCalls, listenCalls,
          stopCalls, apolloStopCalls, httpCloseCalls, dbCloseCalls,
          httpClose, watchdog, dbClosed, startResolved, events, exit,
          steps, stack, ormSyncs, listenError, modelsInitialized, modelSyncs,
          syncCalls, users, notifications, calls, pages, lastResponse,
          serverInfo>>

Running == ~exit.exited

Resolved(r) == r \in {"latched", "closed", "watchdog"}

InitStore(cs, us) ==
    /\ callers = cs
    /\ envValid \in BOOLEAN
    /\ nodeEnv \in NodeEnvs
    /\ pc = [t \in Tasks |-> "idle"]
    /\ failure = [t \in BootTasks |-> "none"]
    /\ stopResult = [t \in Tasks |-> "none"]
    /\ dbCloseResult = [t \in Tasks |-> "none"]
    /\ isInitialized = FALSE
    /\ isShuttingDown = FALSE
    /\ httpListening = FALSE
    /\ appHandlers = FALSE
    /\ startupRuns = 0
    /\ dbConnectCalls = 0
    /\ apolloStartCalls = 0
    /\ listenCalls = 0
    /\ stopCalls = 0
    /\ apolloStopCalls = 0
    /\ httpCloseCalls = 0
    /\ dbCloseCalls = 0
    /\ httpClose = "none"
    /\ watchdog = "unset"
    /\ dbClosed = FALSE
    /\ startResolved = FALSE
    /\ events = << >>
    /\ exit = [exited |-> FALSE, code |-> 0, by |-> "none"]
    /\ steps = [t \in BootTasks |-> << >>]
    /\ stack = << >>
    /\ ormSyncs = {}
    /\ listenError = "none"
    /\ modelsInitialized = FALSE
    /\ modelSyncs = << >>
    /\ syncCalls = << >>
    /\ users = us
    /\ notifications = { }
    /\ calls = [c \in ServiceCalls |-> IdleCall]
    /\ pages = { }
    /\ lastResponse = { }
    /\ serverInfo = { }

ModelCaller == <<"models", 1>>

\* A process started on an empty database.
InitWith(cs) == InitStore(cs, { })

\* The program as written: initializeApp() is the only caller, and one
\* module initializes the models.
Init == InitWith({MainCaller, ModelCaller})

\* The whole process is one caller of initializeApplication(); the second
\* specification drives the singleton's public method from further callers.
InitApi == InitWith(BootTasks \cup {ModelCaller})

\* Several modules initialize the models, their calls free to overlap.
InitModels == InitWith({MainCaller} \cup ModelTasks)

\* The services run in a process whose environment was valid.
InitServices == Init /\ envValid /\ nodeEnv = "production"

ProcessExit(code, by) == exit' = [exited |-> TRUE, code |-> code, by |-> by]

cfgVars == <<callers, envValid, nodeEnv>>
fnVars == <<syncCalls, users, notifications, calls, pages>>
extVars == <<steps, stack, ormSyncs, listenError, modelsInitialized, modelSyncs>>
obsVars == <<lastResponse, serverInfo>>
bootVars == <<isInitialized, appHandlers, startupRuns, dbConnectCalls,
              apolloStartCalls, listenCalls, startResolved>>
stopVars == <<isShuttingDown, stopCalls, apolloStopCalls, httpCloseCalls,
              httpClose, watchdog>>

(***************************************************************************)
(* The Express handler stack.  A handler is mounted on a path ("*" when    *)
(* app.use() has no path) for one method or for all of them.               *)
(***************************************************************************)
Handler(name, path, method) == [name |-> name, path |-> path, method |-> method]

\* applyStandardMiddleware(): session, security headers, the development
\* request logger, then the '/' and '/health' routes.
applyStandardMiddleware(env) ==
    <<Handler("cookieSession", "*", "ALL"), Handler("securityHeaders", "*", "ALL")>>
    \o (IF env = "development" THEN <<Handler("requestLogger", "*", "ALL")>> ELSE << >>)
    \o <<Handler("root", "/", "GET"), Handler("health", "/health", "GET")>>

\* A GraphQL setup whose execution handler is mounted for GET only.
applyGraphQLMiddleware_getOnly(env) ==
    <<Handler("graphqlCors", "/graphql", "ALL")>>
    \o (IF env = "development" THEN <<Handler("graphiql", "/graphql", "GET")>> ELSE << >>)
    \o <<Handler("expressMiddleware", "/graphql", "GET")>>

\* applyGraphQLMiddleware(): the CORS middleware of /graphql, GraphiQL on
\* GET in development, then the Apollo expressMiddleware.
applyGraphQLMiddleware(env) ==
    <<Handler("graphqlCors", "/graphql", "ALL")>>
    \o (IF env = "development" THEN <<Handler("graphiql", "/graphql", "GET")>> ELSE << >>)
    \o <<Handler("expressMiddleware", "/graphql", "ALL")>>

\* apply404Handler(): a path-less app.use() that answers 404.
apply404Handler == <<Handler("notFound", "*", "ALL")>>

\* A start() that installed the catch-all before the GraphQL route.
installHandlers_404First(env) ==
    applyStandardMiddleware(env) \o apply404Handler \o applyGraphQLMiddleware(env)

\* What start() installs between the sub-server start and the listen.
installHandlers(env) ==
    applyStandardMiddleware(env) \o applyGraphQLMiddleware(env) \o apply404Handler

\* The sub-steps of start() that follow the sub-server start, as logged.
StartSubSteps ==
    <<"applyStandardMiddleware", "applyGraphQLMiddleware", "apply404Handler",
      "httpServer.listen">>

\* The requests considered: three methods, the three served paths and one
\* path nothing is mounted on.  All paths have at most one segment, so the
\* prefix match of app.use(path, ...) is an equality here.
Methods == {"GET", "POST", "OPTIONS"}
Paths == {"/", "/health", "/graphql", "/missing"}
Requests == [method : Methods, path : Paths]

\* Express routing: app.use(fn) sees every request, app.use(path, fn) every
\* method under the path, app.get(path, fn) the GET of that path.
Matches(h, req) ==
    /\ h.method = "ALL" \/ h.method = req.method
    /\ h.path = "*" \/ h.path = req.path

\* A CORS middleware that passes the preflight on like any other request.
Handle_noPreflight(h, req) ==
    CASE h.name \in {"cookieSession", "securityHeaders", "requestLogger"} -> "next"
      [] h.name \in {"root", "health"} -> "200"
      [] h.name = "graphqlCors" -> "next"
      [] h.name = "graphiql" -> "200"
      [] h.name = "expressMiddleware" ->
           IF req.method \in {"GET", "POST"} THEN "200" ELSE "405"
      [] h.name = "notFound" -> "404"

\* What a handler does with a request it matches: it calls next() or sends
\* a response with the status given.  The GraphQL handlers always answer
\* (the status of a GraphQL answer is written "200" for GET and POST).
Handle(h, req) ==
    CASE h.name \in {"cookieSession", "securityHeaders", "requestLogger"} -> "next"
      [] h.name \in {"root", "health"} -> "200"
      [] h.name = "graphqlCors" ->
           IF req.method = "OPTIONS" THEN "200" ELSE "next"
      [] h.name = "graphiql" -> "200"
      [] h.name = "expressMiddleware" ->
           IF req.method \in {"GET", "POST"} THEN "200" ELSE "405"
      [] h.name = "notFound" -> "404"

\* The walk of a request down the stack from handler i; a request no
\* handler answers gets the 404 of Express itself.
RECURSIVE Dispatch(_, _, _)
Dispatch(st, i, req) ==
    IF i > Len(st)
      THEN [by |-> "finalhandler", status |-> "404", passed |-> { }]
      ELSE IF Matches(st[i], req)
        THEN IF Handle(st[i], req) # "next"
               THEN [by |-> st[i].name, status |-> Handle(st[i], req), passed |-> { }]
               ELSE LET rest == Dispatch(st, i + 1, req)
                    IN  [rest EXCEPT !.passed = @ \cup {st[i].name}]
        ELSE Dispatch(st, i + 1, req)

\* getServerInfo(): the lifecycle part of the snapshot it returns.
Snapshot(listening, shuttingDown) ==
    [isListening |-> listening, isShuttingDown |-> shuttingDown]

(***************************************************************************)
(* database.ts: syncDatabase(options).  An option is "true", "false" or    *)
(* "absent" (undefined); `x || y` takes y when x is not truthy.            *)
(***************************************************************************)
Truthy(v) == v = "true"

\* The options setupDatabase() passes: { alter: true } in development,
\* { alter: false, force: false } in production.
setupDatabaseOptions(env) ==
    IF env = "development"
      THEN [force |-> "absent", alter |-> "true"]
      ELSE [force |-> "false", alter |-> "false"]

\* A syncDatabase() whose production check is missing.
forceRefused_never(env, options) == FALSE

\* `if (config.isProduction && options.force) throw`: no sync is issued.
forceRefused(env, options) == env = "production" /\ Truthy(options.force)

\* The call that reaches the ORM: sequelize.sync({ force: options.force ||
\* false, alter: options.alter || config.isDevelopment }).
syncDatabase(env, options) ==
    [by |-> "syncDatabase", model |-> "all",
     force |-> Truthy(options.force),
     alter |-> (Truthy(options.alter) \/ env = "development")]

\* Number of direct calls of syncDatabase().
MaxSyncCalls == 2

OptionValues == {"true", "false", "absent"}
SyncOptions == [force : OptionValues, alter : OptionValues]

\* The variables a direct call of syncDatabase() leaves alone.
syncVarsUnchanged ==
    UNCHANGED <<cfgVars, obsVars, users, notifications, calls, pages, steps, stack, listenError, modelsInitialized,
                modelSyncs, pc, failure, stopResult, dbCloseResult,
                isInitialized, isShuttingDown, httpListening, appHandlers,
                startupRuns, dbConnectCalls, apolloStartCalls, listenCalls,
                stopCalls, apolloStopCalls, httpCloseCalls, dbCloseCalls,
                httpClose, watchdog, dbClosed, startResolved, events, exit>>

\* syncDatabase(options) called by a script or test, up to its await of
\* sequelize.sync(): the production check throws before anything reaches
\* the ORM (the catch logs and rethrows).
callSyncDatabase(options) ==
    /\ Len(syncCalls) < MaxSyncCalls
    /\ \A i \in 1..Len(syncCalls) : syncCalls[i].outcome # "pending"
    /\ IF forceRefused(nodeEnv, options)
         THEN /\ syncCalls' = Append(syncCalls, [options |-> options,
                                 issued |-> { }, outcome |-> "threw"])
              /\ UNCHANGED ormSyncs
         ELSE /\ syncCalls' = Append(syncCalls, [options |-> options,
                                 issued |-> {syncDatabase(nodeEnv, options)},
                                 outcome |-> "pending"])
              /\ ormSyncs' = ormSyncs \cup {syncDatabase(nodeEnv, options)}
    /\ syncVarsUnchanged

\* sequelize.sync() settled: syncDatabase() returns, or rethrows from its
\* catch.
sequelizeSyncSettled(ok) ==
    /\ syncCalls # << >>
    /\ syncCalls[Len(syncCalls)].outcome = "pending"
    /\ syncCalls' = [syncCalls EXCEPT ![Len(syncCalls)].outcome =
                        IF ok THEN "resolved" ELSE "rejected"]
    /\ UNCHANGED ormSyncs
    /\ syncVarsUnchanged

\* initializeModels(): Model.sync({ alter: true, force: true }).
modelSync(model) ==
    [by |-> "initializeModels", model |-> model, force |-> TRUE, alter |-> TRUE]

\* A parseEnv() that unwinds through the database teardown before exiting.
parseEnv_cleanup ==
    /\ Running
    /\ pc[MainCaller] = "idle"
    /\ ~envValid
    /\ ProcessExit(1, "parseEnv")
    /\ dbCloseCalls' = dbCloseCalls + 1
    /\ pc' = [pc EXCEPT ![MainCaller] = "exited"]
    /\ UNCHANGED <<cfgVars, fnVars, obsVars, extVars, bootVars, stopVars, failure,
                   stopResult, dbCloseResult, httpListening, dbClosed, events>>

(***************************************************************************)
(* config.ts: parseEnv() runs at import; an invalid environment ends the   *)
(* process there, before the bootstrap object exists.                      *)
(***************************************************************************)
parseEnv ==
    /\ Running
    /\ pc[MainCaller] = "idle"
    /\ ~envValid
    /\ ProcessExit(1, "parseEnv")
    /\ pc' = [pc EXCEPT ![MainCaller] = "exited"]
    /\ UNCHANGED <<cfgVars, fnVars, obsVars, extVars, bootVars, stopVars, failure, stopResult,
                   dbCloseResult, httpListening, dbCloseCalls, dbClosed, events>>

\* An initializeApplication() without its guard on isInitialized.
initializeApplication_noGuard(b) ==
    /\ Running
    /\ b \in callers
    /\ envValid
    /\ pc[b] = "idle"
    /\ b # MainCaller => pc[MainCaller] # "idle"
    /\ startupRuns' = startupRuns + 1
    /\ dbConnectCalls' = dbConnectCalls + 1
    /\ steps' = [steps EXCEPT ![b] =
                    @ \o <<"validateConfiguration", "connectDatabase">>]
    /\ pc' = [pc EXCEPT ![b] = "authenticate"]
    /\ UNCHANGED <<cfgVars, fnVars, obsVars, stack, ormSyncs, listenError, modelsInitialized, modelSyncs,
                   stopVars, failure, stopResult, dbCloseResult,
                   isInitialized, appHandlers, apolloStartCalls, listenCalls,
                   startResolved, httpListening, dbCloseCalls, dbClosed,
                   events, exit>>

(***************************************************************************)
(* initializeApplication(), up to its first real suspension: the guard on  *)
(* isInitialized, validateConfiguration() (validateConfig() only logs),    *)
(* then setupDatabase() -> connectDatabase() -> sequelize.authenticate().  *)
(***************************************************************************)
initializeApplication(b) ==
    /\ Running
    /\ b \in callers
    /\ envValid
    /\ pc[b] = "idle"
    /\ b # MainCaller => pc[MainCaller] # "idle"
    /\ IF isInitialized
         THEN /\ pc' = [pc EXCEPT ![b] = "returned"]
              /\ UNCHANGED <<startupRuns, dbConnectCalls, steps>>
         ELSE /\ startupRuns' = startupRuns + 1
              /\ dbConnectCalls' = dbConnectCalls + 1
              /\ steps' = [steps EXCEPT ![b] =
                              @ \o <<"validateConfiguration", "connectDatabase">>]
              /\ pc' = [pc EXCEPT ![b] = "authenticate"]
    /\ UNCHANGED <<cfgVars, fnVars, obsVars, stack, ormSyncs, listenError, modelsInitialized, modelSyncs,
                   stopVars, failure, stopResult, dbCloseResult,
                   isInitialized, appHandlers, apolloStartCalls, listenCalls,
                   startResolved, httpListening, dbCloseCalls, dbClosed,
                   events, exit>>

\* After setupDatabase(): checkGraphQLReadiness() (it only logs), then
\* startFullStackServer() -> monitorServer.start() up to its first real
\* suspension: startApolloServer() awaits apolloServer.start().
start(b) ==
    /\ apolloStartCalls' = apolloStartCalls + 1
    /\ steps' = [steps EXCEPT ![b] =
                    @ \o <<"checkGraphQLReadiness", "monitorServer.start",
                           "apolloServer.start">>]
    /\ pc' = [pc EXCEPT ![b] = "apolloStart"]

\* An error path that forgot closeDatabase(): no sequelize.close() is issued.
handleBootstrapError_noDbClose(b, f) ==
    /\ failure' = [failure EXCEPT ![b] = f]
    /\ pc' = [pc EXCEPT ![b] = "dbClose"]
    /\ UNCHANGED <<dbCloseCalls, dbCloseResult>>

\* handleBootstrapError() up to its first suspension: closeDatabase()
\* awaits sequelize.close().
handleBootstrapError(b, f) ==
    /\ failure' = [failure EXCEPT ![b] = f]
    /\ dbCloseCalls' = dbCloseCalls + 1
    /\ dbCloseResult' = [dbCloseResult EXCEPT ![b] = "pending"]
    /\ pc' = [pc EXCEPT ![b] = "dbClose"]

\* sequelize.authenticate() resolved: setupDatabase() syncs in development
\* and production, and goes on to the server start otherwise.
authenticateOk(b) ==
    /\ Running
    /\ b \in callers
    /\ pc[b] = "authenticate"
    /\ IF nodeEnv \in {"development", "production"}
         THEN /\ steps' = [steps EXCEPT ![b] = @ \o <<"syncDatabase">>]
              /\ UNCHANGED apolloStartCalls
              /\ IF forceRefused(nodeEnv, setupDatabaseOptions(nodeEnv))
                   THEN /\ handleBootstrapError(b, "sync")
                        /\ UNCHANGED ormSyncs
                   ELSE /\ ormSyncs' = ormSyncs \cup
                              {syncDatabase(nodeEnv, setupDatabaseOptions(nodeEnv))}
                        /\ pc' = [pc EXCEPT ![b] = "sync"]
                        /\ UNCHANGED <<failure, dbCloseCalls, dbCloseResult>>
         ELSE /\ start(b)
              /\ UNCHANGED <<ormSyncs, failure, dbCloseCalls, dbCloseResult>>
    /\ UNCHANGED <<cfgVars, fnVars, obsVars, stack, listenError, modelsInitialized, modelSyncs, stopVars,
                   stopResult, isInitialized, appHandlers, startupRuns,
                   dbConnectCalls, listenCalls, startResolved, httpListening,
                   dbClosed, events, exit>>

\* sequelize.authenticate() rejected: connectDatabase() catches the error
\* and calls process.exit(1) itself.
connectDatabaseFail(b) ==
    /\ Running
    /\ b \in callers
    /\ pc[b] = "authenticate"
    /\ failure' = [failure EXCEPT ![b] = "connect"]
    /\ pc' = [pc EXCEPT ![b] = "exited"]
    /\ ProcessExit(1, "connectDatabase")
    /\ UNCHANGED <<cfgVars, fnVars, obsVars, extVars, bootVars, stopVars, stopResult, dbCloseResult,
                   httpListening, dbCloseCalls, dbClosed, events>>

syncOk(b) ==
    /\ Running
    /\ b \in callers
    /\ pc[b] = "sync"
    /\ start(b)
    /\ UNCHANGED <<cfgVars, fnVars, obsVars, stack, ormSyncs, listenError, modelsInitialized, modelSyncs,
                   stopVars, failure, stopResult, dbCloseResult,
                   isInitialized, appHandlers, startupRuns, dbConnectCalls,
                   listenCalls, startResolved, httpListening, dbCloseCalls,
                   dbClosed, events, exit>>

\* A setupDatabase() that logged the failed sync and went on to the start.
syncFail_continues(b) ==
    /\ Running
    /\ b \in callers
    /\ pc[b] = "sync"
    /\ failure' = [failure EXCEPT ![b] = "sync"]
    /\ start(b)
    /\ UNCHANGED <<cfgVars, fnVars, obsVars, stack, ormSyncs, listenError, modelsInitialized, modelSyncs,
                   stopVars, stopResult, dbCloseResult, isInitialized,
                   appHandlers, startupRuns, dbConnectCalls, listenCalls,
                   startResolved, httpListening, dbCloseCalls, dbClosed,
                   events, exit>>

\* sequelize.sync() rejected: syncDatabase() rethrows, setupDatabase() wraps
\* the error and initializeApplication() enters handleBootstrapError().
syncFail(b) ==
    /\ Running
    /\ b \in callers
    /\ pc[b] = "sync"
    /\ handleBootstrapError(b, "sync")
    /\ UNCHANGED <<cfgVars, fnVars, obsVars, extVars, bootVars, stopVars, stopResult, httpListening,
                   dbClosed, events, exit>>

\* A bootstrap that raised its flag as soon as the sub-server had started.
apolloStartOk_flagEarly(b) ==
    /\ Running
    /\ b \in callers
    /\ pc[b] = "apolloStart"
    /\ stack' = stack \o installHandlers(nodeEnv)
    /\ steps' = [steps EXCEPT ![b] = @ \o StartSubSteps]
    /\ listenCalls' = listenCalls + 1
    /\ isInitialized' = TRUE
    /\ pc' = [pc EXCEPT ![b] = "listen"]
    /\ UNCHANGED <<cfgVars, fnVars, obsVars, ormSyncs, listenError, modelsInitialized, modelSyncs, stopVars,
                   failure, stopResult, dbCloseResult,
                   appHandlers, startupRuns, dbConnectCalls,
                   apolloStartCalls, startResolved, httpListening,
                   dbCloseCalls, dbClosed, events, exit>>

\* apolloServer.start() resolved: start() installs the middleware, the
\* GraphQL route and the 404 handler, then startHttpServer() calls listen.
apolloStartOk(b) ==
    /\ Running
    /\ b \in callers
    /\ pc[b] = "apolloStart"
    /\ stack' = stack \o installHandlers(nodeEnv)
    /\ steps' = [steps EXCEPT ![b] = @ \o StartSubSteps]
    /\ listenCalls' = listenCalls + 1
    /\ pc' = [pc EXCEPT ![b] = "listen"]
    /\ UNCHANGED <<cfgVars, fnVars, obsVars, ormSyncs, listenError, modelsInitialized, modelSyncs, stopVars,
                   failure, stopResult, dbCloseResult,
                   isInitialized, appHandlers, startupRuns, dbConnectCalls,
                   apolloStartCalls, startResolved, httpListening,
                   dbCloseCalls, dbClosed, events, exit>>

\* A start() that swallowed the sub-server's failure and went on to listen.
apolloStartFail_swallowed(b) ==
    /\ Running
    /\ b \in callers
    /\ pc[b] = "apolloStart"
    /\ failure' = [failure EXCEPT ![b] = "apolloStart"]
    /\ stack' = stack \o installHandlers(nodeEnv)
    /\ steps' = [steps EXCEPT ![b] = @ \o StartSubSteps]
    /\ listenCalls' = listenCalls + 1
    /\ pc' = [pc EXCEPT ![b] = "listen"]
    /\ UNCHANGED <<cfgVars, fnVars, obsVars, ormSyncs, listenError, modelsInitialized, modelSyncs, stopVars, stopResult, dbCloseResult,
                   isInitialized, appHandlers, startupRuns, dbConnectCalls,
                   apolloStartCalls, startResolved, httpListening,
                   dbCloseCalls, dbClosed, events, exit>>

\* apolloServer.start() rejected: startApolloServer() and start() rethrow,
\* nothing after it in start() runs, and the bootstrap error path begins.
apolloStartFail(b) ==
    /\ Running
    /\ b \in callers
    /\ pc[b] = "apolloStart"
    /\ handleBootstrapError(b, "apolloStart")
    /\ UNCHANGED <<cfgVars, fnVars, obsVars, extVars, bootVars, stopVars, stopResult, httpListening,
                   dbClosed, events, exit>>

\* The listen callback: start() resolves, initializeApplication() sets
\* isInitialized, logs the startup with getServerInfo() and returns, and
\* initializeApp() registers its handlers.
listenOk(b) ==
    /\ Running
    /\ b \in callers
    /\ pc[b] = "listen"
    /\ ~httpListening
    /\ httpListening' = TRUE
    /\ startResolved' = TRUE
    /\ isInitialized' = TRUE
    /\ appHandlers' = (appHandlers \/ b = MainCaller)
    /\ serverInfo' = {Snapshot(TRUE, isShuttingDown)}
    /\ pc' = [pc EXCEPT ![b] = "returned"]
    /\ UNCHANGED <<cfgVars, fnVars, lastResponse, extVars, stopVars, failure, stopResult, dbCloseResult,
                   startupRuns, dbConnectCalls, apolloStartCalls, listenCalls,
                   dbCloseCalls, dbClosed, events, exit>>

\* The error codes startHttpServer() tells apart; any other code is "other".
ListenErrorCodes == {"EADDRINUSE", "EACCES", "other"}

\* A startHttpServer() that answers a busy port by listening once more.
listenFail_retry(b, code) ==
    /\ Running
    /\ b \in callers
    /\ pc[b] = "listen"
    /\ listenError' = code
    /\ IF code = "EADDRINUSE"
         THEN /\ listenCalls' = listenCalls + 1
              /\ UNCHANGED <<pc, failure, dbCloseCalls, dbCloseResult>>
         ELSE /\ handleBootstrapError(b, "listen")
              /\ UNCHANGED listenCalls
    /\ UNCHANGED <<cfgVars, fnVars, obsVars, steps, stack, ormSyncs, modelsInitialized, modelSyncs,
                   isInitialized, appHandlers, startupRuns, dbConnectCalls,
                   apolloStartCalls, startResolved, stopVars, stopResult,
                   httpListening, dbClosed, events, exit>>

\* The 'error' event of the listen: the listener logs by error.code and
\* rejects with the error in every case; start() and startFullStackServer()
\* rethrow, and the bootstrap error path begins.
listenFail(b, code) ==
    /\ Running
    /\ b \in callers
    /\ pc[b] = "listen"
    /\ listenError' = code
    /\ handleBootstrapError(b, "listen")
    /\ UNCHANGED <<cfgVars, fnVars, obsVars, steps, stack, ormSyncs, modelsInitialized, modelSyncs, bootVars, stopVars, stopResult, httpListening,
                   dbClosed, events, exit>>

(***************************************************************************)
(* MonitorServer.stop()                                                    *)
(***************************************************************************)
\* A stop() without its single-flight guard.
alreadyShuttingDown_noGuard(flag) == FALSE

\* The guard of stop(): `if (this.isShuttingDown) return`.
alreadyShuttingDown(flag) == flag

\* What the caller of stop() does once stop() has settled with result r
\* (dcr is dbCloseResult as the caller's own turn has left it):
\*   handleBootstrapError: `finally { process.exit(1) }`;
\*   shutdownHandler: exit(0), or exit(1) from its catch;
\*   gracefulShutdown: closeDatabase() (awaits sequelize.close()), or
\*   exit(1) from its catch.
stopSettled(t, r, dcr) ==
    /\ stopResult' = [stopResult EXCEPT ![t] = r]
    /\ CASE Kind(t) = "boot" ->
              /\ ProcessExit(1, "handleBootstrapError")
              /\ pc' = [pc EXCEPT ![t] = "exited"]
              /\ dbCloseResult' = dcr
              /\ UNCHANGED dbCloseCalls
         [] Kind(t) = "ms" ->
              /\ ProcessExit(IF Resolved(r) THEN 0 ELSE 1, "shutdownHandler")
              /\ pc' = [pc EXCEPT ![t] = "exited"]
              /\ dbCloseResult' = dcr
              /\ UNCHANGED dbCloseCalls
         [] Kind(t) = "app" ->
              IF Resolved(r)
                THEN /\ dbCloseCalls' = dbCloseCalls + 1
                     /\ dbCloseResult' = [dcr EXCEPT ![t] = "pending"]
                     /\ pc' = [pc EXCEPT ![t] = "dbClose"]
                     /\ UNCHANGED exit
                ELSE /\ ProcessExit(1, "gracefulShutdown")
                     /\ pc' = [pc EXCEPT ![t] = "exited"]
                     /\ dbCloseResult' = dcr
                     /\ UNCHANGED dbCloseCalls

\* A stop() called while the caller's closeDatabase() is still unsettled
\* (the `await` in front of closeDatabase() dropped).
stop_dbCloseUnawaited(t, dcr) ==
    /\ stopCalls' = stopCalls + 1
    /\ IF alreadyShuttingDown(isShuttingDown)
         THEN /\ stopSettled(t, "latched", dbCloseResult)
              /\ UNCHANGED <<isShuttingDown, apolloStopCalls>>
         ELSE /\ isShuttingDown' = TRUE
              /\ apolloStopCalls' = apolloStopCalls + 1
              /\ stopResult' = [stopResult EXCEPT ![t] = "pending"]
              /\ pc' = [pc EXCEPT ![t] = "apolloStop"]
              /\ UNCHANGED <<exit, dbCloseCalls, dbCloseResult>>

\* stop() called by task t, up to its first suspension: the guard, the
\* latch, then `await this.apolloServer.stop()`.
stop(t, dcr) ==
    /\ stopCalls' = stopCalls + 1
    /\ IF alreadyShuttingDown(isShuttingDown)
         THEN /\ stopSettled(t, "latched", dcr)
              /\ UNCHANGED <<isShuttingDown, apolloStopCalls>>
         ELSE /\ isShuttingDown' = TRUE
              /\ apolloStopCalls' = apolloStopCalls + 1
              /\ stopResult' = [stopResult EXCEPT ![t] = "pending"]
              /\ pc' = [pc EXCEPT ![t] = "apolloStop"]
              /\ dbCloseResult' = dcr
              /\ UNCHANGED <<exit, dbCloseCalls>>

\* A stop() that arms the timer but never calls httpServer.close().
apolloStopOk_noClose(t) ==
    /\ Running
    /\ pc[t] = "apolloStop"
    /\ watchdog' = "armed"
    /\ pc' = [pc EXCEPT ![t] = "close"]
    /\ UNCHANGED <<cfgVars, fnVars, obsVars, extVars, bootVars, failure, isShuttingDown, stopCalls,
                   apolloStopCalls, httpCloseCalls, httpClose, httpListening,
                   stopResult, exit, dbCloseCalls, dbCloseResult, dbClosed,
                   events>>

\* apolloServer.stop() resolved: stop() calls httpServer.close(cb) and arms
\* the 10 s timer.  close() on a bound server unbinds it at once (listening
\* turns false) and calls back when the connections have ended; on a server
\* that is not bound the callback gets the error in the same turn.
apolloStopOk(t) ==
    /\ Running
    /\ pc[t] = "apolloStop"
    /\ httpCloseCalls' = httpCloseCalls + 1
    /\ watchdog' = "armed"
    /\ IF httpListening
         THEN /\ httpListening' = FALSE
              /\ httpClose' = "pending"
              /\ pc' = [pc EXCEPT ![t] = "close"]
              /\ UNCHANGED <<stopResult, exit, dbCloseCalls, dbCloseResult>>
         ELSE /\ httpClose' = "err"
              /\ stopSettled(t, "closeErr", dbCloseResult)
              /\ UNCHANGED httpListening
    /\ UNCHANGED <<cfgVars, fnVars, obsVars, extVars, bootVars, failure, isShuttingDown, stopCalls,
                   apolloStopCalls, dbClosed, events>>

\* A stop() that reopens its latch when the sub-server stop fails.
apolloStopFail_resetsLatch(t) ==
    /\ Running
    /\ pc[t] = "apolloStop"
    /\ isShuttingDown' = FALSE
    /\ stopSettled(t, "apolloErr", dbCloseResult)
    /\ UNCHANGED <<cfgVars, fnVars, obsVars, extVars, bootVars, stopCalls,
                   apolloStopCalls, httpCloseCalls, httpClose, watchdog,
                   failure, httpListening, dbClosed, events>>

\* apolloServer.stop() rejected: stop() rethrows from its catch.
apolloStopFail(t) ==
    /\ Running
    /\ pc[t] = "apolloStop"
    /\ stopSettled(t, "apolloErr", dbCloseResult)
    /\ UNCHANGED <<cfgVars, fnVars, obsVars, extVars, bootVars, stopVars, failure, httpListening,
                   dbClosed, events>>

\* The close callback without an error: resolve().
closeCallbackOk(t) ==
    /\ Running
    /\ pc[t] = "close"
    /\ httpClose' = "done"
    /\ stopSettled(t, "closed", dbCloseResult)
    /\ UNCHANGED <<cfgVars, fnVars, obsVars, extVars, bootVars, failure, isShuttingDown, stopCalls,
                   apolloStopCalls, httpCloseCalls, watchdog, httpListening,
                   dbClosed, events>>

\* A stop() whose close callback only logs the error and leaves the
\* decision to the timer.
closeCallbackErr_leftToTimer(t) ==
    /\ Running
    /\ pc[t] = "close"
    /\ httpClose = "pending"
    /\ httpClose' = "err"
    /\ UNCHANGED <<cfgVars, fnVars, obsVars, extVars, bootVars, failure, isShuttingDown,
                   stopCalls, apolloStopCalls, httpCloseCalls, watchdog,
                   httpListening, dbClosed, events, pc, stopResult, exit,
                   dbCloseCalls, dbCloseResult>>

\* The close callback with an error: reject(error).
closeCallbackErr(t) ==
    /\ Running
    /\ pc[t] = "close"
    /\ httpClose' = "err"
    /\ stopSettled(t, "closeErr", dbCloseResult)
    /\ UNCHANGED <<cfgVars, fnVars, obsVars, extVars, bootVars, failure, isShuttingDown, stopCalls,
                   apolloStopCalls, httpCloseCalls, watchdog, httpListening,
                   dbClosed, events>>

\* A stop() whose timer was never set.
watchdogFire_noTimer(t) == FALSE /\ UNCHANGED vars

\* The 10 s timer fires before the close callback: resolve().
watchdogFire(t) ==
    /\ Running
    /\ pc[t] = "close"
    /\ watchdog = "armed"
    /\ watchdog' = "fired"
    /\ stopSettled(t, "watchdog", dbCloseResult)
    /\ UNCHANGED <<cfgVars, fnVars, obsVars, extVars, bootVars, failure, isShuttingDown, stopCalls,
                   apolloStopCalls, httpCloseCalls, httpClose, httpListening,
                   dbClosed, events>>

(***************************************************************************)
(* The rest of handleBootstrapError() and gracefulShutdown()               *)
(***************************************************************************)
\* closeDatabase() swallows a rejection of sequelize.close(): either way it
\* resolves, and handleBootstrapError() goes on to monitorServer.stop().
bootstrapDbCloseDone(b, ok) ==
    /\ Running
    /\ b \in callers
    /\ pc[b] = "dbClose"
    /\ Kind(b) = "boot"
    /\ dbClosed' = (dbClosed \/ ok)
    /\ stop(b, [dbCloseResult EXCEPT ![b] = IF ok THEN "ok" ELSE "failed"])
    /\ UNCHANGED <<cfgVars, fnVars, obsVars, extVars, bootVars, failure, httpCloseCalls, httpClose,
                   watchdog, httpListening, events>>

\* A gracefulShutdown() that exits 1 whenever a fatal-error event (rather
\* than a signal) started it.
gracefulDbCloseDone_fatalExitsOne(t, ok) ==
    /\ Running
    /\ pc[t] = "dbClose"
    /\ Kind(t) = "app"
    /\ dbClosed' = (dbClosed \/ ok)
    /\ dbCloseResult' = [dbCloseResult EXCEPT ![t] = IF ok THEN "ok" ELSE "failed"]
    /\ pc' = [pc EXCEPT ![t] = "exited"]
    /\ ProcessExit(IF events[t[2]].kind \in {"SIGTERM", "SIGINT"} THEN 0 ELSE 1,
                   "gracefulShutdown")
    /\ UNCHANGED <<cfgVars, fnVars, obsVars, extVars, bootVars, stopVars, failure, stopResult,
                   httpListening, dbCloseCalls, events>>

\* gracefulShutdown() after closeDatabase(): process.exit(0), also when
\* sequelize.close() rejected (closeDatabase() has caught it).
gracefulDbCloseDone(t, ok) ==
    /\ Running
    /\ pc[t] = "dbClose"
    /\ Kind(t) = "app"
    /\ dbClosed' = (dbClosed \/ ok)
    /\ dbCloseResult' = [dbCloseResult EXCEPT ![t] = IF ok THEN "ok" ELSE "failed"]
    /\ pc' = [pc EXCEPT ![t] = "exited"]
    /\ ProcessExit(0, "gracefulShutdown")
    /\ UNCHANGED <<cfgVars, fnVars, obsVars, extVars, bootVars, stopVars, failure, stopResult,
                   httpListening, dbCloseCalls, events>>

\* The database connection is open: sequelize.authenticate() has resolved
\* for the startup and no sequelize.close() has completed.
DbOpen == Len(steps[MainCaller]) > 2 /\ ~dbClosed

(***************************************************************************)
(* Signals and fatal-error events                                          *)
(***************************************************************************)
\* process.on listeners run in the order they were registered.  The
\* MonitorServer constructor registers shutdownHandler for all four events
\* (setupGracefulShutdown); initializeApp registers gracefulShutdown for the
\* same four once initializeApplication() has returned.  One delivery runs
\* shutdownHandler up to its await of stop(), then (when registered)
\* gracefulShutdown up to its await of stop(), then the microtasks:
\*   - stop() already latched: shutdownHandler resumes first and exits 0;
\*   - otherwise shutdownHandler's stop() sets the latch and awaits
\*     apolloServer.stop(); gracefulShutdown's stop() returns at the latch,
\*     and gracefulShutdown goes on to closeDatabase().
deliver(k) ==
    LET e == Len(events) + 1
        ms == <<"ms", e>>
        app == <<"app", e>>
        msLatched == alreadyShuttingDown(isShuttingDown)
        appRuns == appHandlers
        appLatched == alreadyShuttingDown(TRUE)
        appStops == appRuns /\ ~appLatched
        appCloses == appRuns /\ appLatched /\ ~msLatched
    IN
    /\ Running
    /\ pc[MainCaller] # "idle"
    /\ Len(events) < MaxEvents
    /\ events' = Append(events, [kind |-> k, ready |-> appHandlers,
                                 dbOpen |-> DbOpen])
    /\ stopCalls' = stopCalls + 1 + (IF appRuns THEN 1 ELSE 0)
    /\ isShuttingDown' = TRUE
    /\ apolloStopCalls' = apolloStopCalls + (IF msLatched THEN 0 ELSE 1)
                                          + (IF appStops THEN 1 ELSE 0)
    /\ stopResult' = [stopResult EXCEPT
                        ![ms] = IF msLatched THEN "latched" ELSE "pending",
                        ![app] = IF ~appRuns THEN @
                                 ELSE IF appLatched THEN "latched" ELSE "pending"]
    /\ pc' = [pc EXCEPT
                ![ms] = IF msLatched THEN "exited" ELSE "apolloStop",
                ![app] = IF ~appRuns THEN @
                         ELSE IF appStops THEN "apolloStop"
                         ELSE IF appCloses THEN "dbClose" ELSE "killed"]
    /\ dbCloseCalls' = dbCloseCalls + (IF appCloses THEN 1 ELSE 0)
    /\ dbCloseResult' = [dbCloseResult EXCEPT
                           ![app] = IF appCloses THEN "pending" ELSE @]
    /\ IF msLatched
         THEN ProcessExit(0, "shutdownHandler")
         ELSE UNCHANGED exit
    /\ UNCHANGED <<cfgVars, fnVars, obsVars, extVars, bootVars, failure, httpCloseCalls, httpClose,
                   watchdog, httpListening, dbClosed>>

(***************************************************************************)
(* models/initialize.ts: initializeModels(), called by the modules that    *)
(* use the models once the process is up.                                  *)
(***************************************************************************)
modelVarsUnchanged ==
    UNCHANGED <<cfgVars, fnVars, obsVars, steps, stack, listenError, bootVars, stopVars, failure,
                stopResult, dbCloseResult, httpListening, dbCloseCalls,
                dbClosed, events, exit>>

\* The call up to its first suspension: the guard on modelsInitialized,
\* then, in development only, `await UserModel.sync(...)`.
initializeModels(m) ==
    /\ Running
    /\ envValid
    /\ pc[MainCaller] # "idle"
    /\ m \in callers
    /\ pc[m] = "idle"
    /\ IF modelsInitialized
         THEN /\ pc' = [pc EXCEPT ![m] = "returned"]
              /\ UNCHANGED <<ormSyncs, modelsInitialized, modelSyncs>>
         ELSE IF nodeEnv = "development"
           THEN /\ ormSyncs' = ormSyncs \cup {modelSync("User")}
                /\ modelSyncs' = Append(modelSyncs, [call |-> m, model |-> "User"])
                /\ pc' = [pc EXCEPT ![m] = "userSync"]
                /\ UNCHANGED modelsInitialized
           ELSE /\ modelsInitialized' = TRUE
                /\ pc' = [pc EXCEPT ![m] = "returned"]
                /\ UNCHANGED <<ormSyncs, modelSyncs>>
    /\ modelVarsUnchanged

\* UserModel.sync() resolved: `await NotificationModel.sync(...)`.
userSyncOk(m) ==
    /\ Running
    /\ pc[m] = "userSync"
    /\ ormSyncs' = ormSyncs \cup {modelSync("Notification")}
    /\ modelSyncs' = Append(modelSyncs, [call |-> m, model |-> "Notification"])
    /\ pc' = [pc EXCEPT ![m] = "notificationSync"]
    /\ UNCHANGED modelsInitialized
    /\ modelVarsUnchanged

\* NotificationModel.sync() resolved: the flag is set and the call returns.
notificationSyncOk(m) ==
    /\ Running
    /\ pc[m] = "notificationSync"
    /\ modelsInitialized' = TRUE
    /\ pc' = [pc EXCEPT ![m] = "returned"]
    /\ UNCHANGED <<ormSyncs, modelSyncs>>
    /\ modelVarsUnchanged

\* Either sync rejected: the catch throws 'Model initialization failed'
\* and the flag keeps its value.
modelSyncFail(m) ==
    /\ Running
    /\ pc[m] \in {"userSync", "notificationSync"}
    /\ pc' = [pc EXCEPT ![m] = "threw"]
    /\ UNCHANGED <<ormSyncs, modelsInitialized, modelSyncs>>
    /\ modelVarsUnchanged

(***************************************************************************)
(* HTTP requests and getServerInfo()                                       *)
(***************************************************************************)
otherVarsUnchanged ==
    UNCHANGED <<cfgVars, fnVars, extVars, bootVars, stopVars, pc, failure, stopResult,
                dbCloseResult, httpListening, dbCloseCalls, dbClosed, events,
                exit>>

\* One request served by the listening server; the '/health' handler
\* calls getServerInfo() for its body.
handleRequest(req) ==
    /\ Running
    /\ httpListening
    /\ lastResponse' = {[req |-> req, res |-> Dispatch(stack, 1, req)]}
    /\ IF Dispatch(stack, 1, req).by = "health"
         THEN serverInfo' = {Snapshot(httpListening, isShuttingDown)}
         ELSE UNCHANGED serverInfo
    /\ otherVarsUnchanged

\* A getServerInfo() that latched the shutdown flag while reading it.
getServerInfo_latches ==
    /\ Running
    /\ pc[MainCaller] # "idle"
    /\ serverInfo' = {Snapshot(httpListening, isShuttingDown)}
    /\ isShuttingDown' = TRUE
    /\ UNCHANGED <<cfgVars, fnVars, extVars, bootVars, stopCalls, apolloStopCalls,
                   httpCloseCalls, httpClose, watchdog, pc, failure,
                   stopResult, dbCloseResult, httpListening, dbCloseCalls,
                   dbClosed, events, exit, lastResponse>>

\* getServerInfo() called on the MonitorServer in whatever state it is in:
\* it reads httpServer.listening and isShuttingDown and returns.
getServerInfo ==
    /\ Running
    /\ pc[MainCaller] # "idle"
    /\ serverInfo' = {Snapshot(httpListening, isShuttingDown)}
    /\ UNCHANGED lastResponse
    /\ otherVarsUnchanged

(***************************************************************************)
(* services/user.service.ts: the store and the service results             *)
(***************************************************************************)
\* The variables a service call leaves alone.
serviceVarsUnchanged ==
    UNCHANGED <<cfgVars, obsVars, extVars, bootVars, stopVars, pc, failure,
                stopResult, dbCloseResult, httpListening, dbCloseCalls,
                dbClosed, events, exit, syncCalls, pages>>

\* IServiceResult: a failure carries error, a success carries data.
Failure(statusCode, error) ==
    [success |-> FALSE, statusCode |-> statusCode, error |-> error]

Success(statusCode, data) ==
    [success |-> TRUE, statusCode |-> statusCode, data |-> data]

\* The call returns result r.
Return(c, r) == [calls[c] EXCEPT !.pc = "returned", !.result = {r}]

\* The call has passed a check and is suspended at the next await.
Await(c, at, check) ==
    [calls[c] EXCEPT !.pc = at, !.trace = Append(@, check)]

Returned(c) == calls[c].pc = "returned"

\* Calls are numbered in the order they are made.
NextCall(c) ==
    /\ calls[c].pc = "idle"
    /\ \A d \in ServiceCalls : d < c => calls[d].pc # "idle"

ResultOf(c) == CHOOSE r \in calls[c].result : TRUE

(***************************************************************************)
(* UserService                                                             *)
(***************************************************************************)
Emails == {"a@x.io", "b@x.io"}
Usernames == {"ann", "bob"}
PlainPasswords == {"pw1", "pw2"}
Identifiers == Emails \cup Usernames \cup {"zed"}

\* IUserCreate: password is absent for a social-login account.
UserCreates ==
    [email : Emails, username : Usernames,
     password : {{ }} \cup {{p} : p \in {"pw1"}}]

\* IUserLogin
UserLogins == [identifier : Identifiers, password : PlainPasswords]

\* user.model.ts: bcrypt hash() in the beforeCreate hook, compare() in
\* comparePassword().
hash(password) == [bcrypt |-> password]

compare(password, hashedPassword) == hashedPassword = hash(password)

\* toJSON() / toAuthJSON() of a row.
toJSON(u) == [id |-> u.id, username |-> u.username, email |-> u.email]

\* The users_email_unique and users_username_unique indexes refuse the row.
UniqueViolation(userData) ==
    \E u \in users : u.email = userData.email \/ u.username = userData.username

\* createUser(userData) up to `await UserModel.findOne({where: {email}})`.
createUser(c, userData) ==
    /\ NextCall(c)
    /\ calls' = [calls EXCEPT ![c] =
                   [op |-> "createUser", pc |-> "findEmail", arg |-> userData,
                    trace |-> << >>, user |-> { }, cause |-> "none",
                    result |-> { }]]
    /\ UNCHANGED <<users, notifications>>
    /\ serviceVarsUnchanged

\* The e-mail lookup resolved: 409, or on to the username lookup.
createUser_existingEmail(c) ==
    /\ calls[c].op = "createUser"
    /\ calls[c].pc = "findEmail"
    /\ calls' = [calls EXCEPT ![c] =
                   IF \E u \in users : u.email = calls[c].arg.email
                     THEN Return(c, Failure(409, "Email already exists"))
                     ELSE Await(c, "findUsername", "email")]
    /\ UNCHANGED <<users, notifications>>
    /\ serviceVarsUnchanged

\* The username lookup resolved: 409, or on to UserModel.create().
createUser_existingUsername(c) ==
    /\ calls[c].op = "createUser"
    /\ calls[c].pc = "findUsername"
    /\ calls' = [calls EXCEPT ![c] =
                   IF \E u \in users : u.username = calls[c].arg.username
                     THEN Return(c, Failure(409, "Username already exists"))
                     ELSE Await(c, "create", "username")]
    /\ UNCHANGED <<users, notifications>>
    /\ serviceVarsUnchanged

\* A createUser whose insert is not guarded by the unique indexes.
createUser_create_noIndex(c) ==
    LET d == calls[c].arg
        u == [id |-> Cardinality(users) + 1, email |-> d.email,
              username |-> d.username,
              password |-> {hash(p) : p \in d.password}]
    IN
    /\ calls[c].op = "createUser"
    /\ calls[c].pc = "create"
    /\ users' = users \cup {u}
    /\ calls' = [calls EXCEPT ![c] = Return(c, Success(201, toJSON(u)))]
    /\ UNCHANGED notifications
    /\ serviceVarsUnchanged

\* UserModel.create() settled: the row is inserted (password hashed by
\* the beforeCreate hook) and 201 returned, or a unique index rejected it
\* and the catch returns 500.
createUser_create(c) ==
    LET d == calls[c].arg
        u == [id |-> Cardinality(users) + 1, email |-> d.email,
              username |-> d.username,
              password |-> {hash(p) : p \in d.password}]
    IN
    /\ calls[c].op = "createUser"
    /\ calls[c].pc = "create"
    /\ IF UniqueViolation(d)
         THEN /\ calls' = [calls EXCEPT ![c] =
                   [Return(c, Failure(500, "Failed to create user"))
                      EXCEPT !.cause = "unique"]]
              /\ UNCHANGED users
         ELSE /\ users' = users \cup {u}
              /\ calls' = [calls EXCEPT ![c] = Return(c, Success(201, toJSON(u)))]
    /\ UNCHANGED notifications
    /\ serviceVarsUnchanged

\* verifyCredentials(credentials) up to the await inside
\* getUserByEmailForAuth(identifier).
verifyCredentials(c, credentials) ==
    /\ NextCall(c)
    /\ calls' = [calls EXCEPT ![c] =
                   [op |-> "verifyCredentials", pc |-> "findEmail",
                    arg |-> credentials, trace |-> << >>, user |-> { },
                    cause |-> "none", result |-> { }]]
    /\ UNCHANGED <<users, notifications>>
    /\ serviceVarsUnchanged

\* With the user found: the password check, then `await
\* user.comparePassword(...)`.
verifyCredentials_found(c, u, by) ==
    IF u.password = { }
      THEN [Return(c, Failure(401, "User has no password (social login only)"))
              EXCEPT !.user = {u}, !.trace = Append(@, by)]
      ELSE [Await(c, "compare", by) EXCEPT !.user = {u}]

\* getUserByEmailForAuth() returned: with the user, or without success
\* (404), and then `await UserModel.findOne({where: {username}})`.
verifyCredentials_byEmail(c) ==
    /\ calls[c].op = "verifyCredentials"
    /\ calls[c].pc = "findEmail"
    /\ calls' = [calls EXCEPT ![c] =
                   IF \E u \in users : u.email = calls[c].arg.identifier
                     THEN verifyCredentials_found(c,
                            CHOOSE u \in users : u.email = calls[c].arg.identifier,
                            "email")
                     ELSE Await(c, "findUsername", "email: 404")]
    /\ UNCHANGED <<users, notifications>>
    /\ serviceVarsUnchanged

\* A verifyCredentials that tells an unknown identifier apart.
verifyCredentials_byUsername_notFound(c) ==
    /\ calls[c].op = "verifyCredentials"
    /\ calls[c].pc = "findUsername"
    /\ calls' = [calls EXCEPT ![c] =
                   IF \E u \in users : u.username = calls[c].arg.identifier
                     THEN verifyCredentials_found(c,
                            CHOOSE u \in users : u.username = calls[c].arg.identifier,
                            "username")
                     ELSE [Return(c, Failure(404, "User not found"))
                             EXCEPT !.trace = Append(@, "username: null")]]
    /\ UNCHANGED <<users, notifications>>
    /\ serviceVarsUnchanged

\* The username lookup resolved: 401 'Invalid credentials' when null.
verifyCredentials_byUsername(c) ==
    /\ calls[c].op = "verifyCredentials"
    /\ calls[c].pc = "findUsername"
    /\ calls' = [calls EXCEPT ![c] =
                   IF \E u \in users : u.username = calls[c].arg.identifier
                     THEN verifyCredentials_found(c,
                            CHOOSE u \in users : u.username = calls[c].arg.identifier,
                            "username")
                     ELSE [Return(c, Failure(401, "Invalid credentials"))
                             EXCEPT !.trace = Append(@, "username: null")]]
    /\ UNCHANGED <<users, notifications>>
    /\ serviceVarsUnchanged

\* comparePassword() resolved (it never rejects: its catch returns false).
verifyCredentials_compare(c) ==
    LET u == CHOOSE u \in calls[c].user : TRUE IN
    /\ calls[c].op = "verifyCredentials"
    /\ calls[c].pc = "compare"
    /\ calls' = [calls EXCEPT ![c] =
                   IF \E h \in u.password : compare(calls[c].arg.password, h)
                     THEN Return(c, Success(200, toJSON(u)))
                     ELSE Return(c, Failure(401, "Invalid credentials"))]
    /\ UNCHANGED <<users, notifications>>
    /\ serviceVarsUnchanged

\* The catch of each operation.
CatchError(op) ==
    CASE op = "createUser" -> "Failed to create user"
      [] op = "verifyCredentials" -> "Failed to verify credentials"
      [] op = "createNotification" -> "Failed to create notification"
      [] op = "createNotificationGroup" -> "Failed to create notification group"
      [] op = "updateNotification" -> "Failed to update notification"
      [] op = "updateNotificationGroup" -> "Failed to update notification group"

\* The model call a service call awaits rejects (connection lost, query
\* timeout).  Inside getUserByEmailForAuth() its own catch turns the
\* rejection into a 500 result, which verifyCredentials() reads as "not
\* found by e-mail"; everywhere else the operation's catch returns 500.
modelCallRejected(c) ==
    /\ calls[c].pc \in {"findEmail", "findUsername", "create", "findUser",
                        "findGroup", "insert", "findByPk", "update",
                        "refetch", "updateGroup"}
    /\ calls' = [calls EXCEPT ![c] =
                   IF calls[c].op = "verifyCredentials" /\ calls[c].pc = "findEmail"
                     THEN [Await(c, "findUsername", "email: 500")
                             EXCEPT !.cause = "fault"]
                     ELSE [Return(c, Failure(500, CatchError(calls[c].op)))
                             EXCEPT !.cause = "fault"]]
    /\ UNCHANGED <<users, notifications>>
    /\ serviceVarsUnchanged

(***************************************************************************)
(* NotificationService                                                     *)
(***************************************************************************)
\* A string is the sequence of its characters.
GoodAddress == <<"a", "@", "b", ".", "c">>
NoTldAddress == <<"a", "@", "b">>

\* The emails values the callers pass: two addresses with a blank after
\* the comma; a list whose second address has no dot; an address with a
\* blank inside.
EmailLists ==
    {GoodAddress \o <<",", " ">> \o GoodAddress,
     GoodAddress \o <<",">> \o NoTldAddress,
     <<"a", " ", "b", "@", "b", ".", "c">>}

GroupNames == {"ops", "dev"}

\* The user created first, and the ids the callers pass: that user's and
\* one that belongs to nobody.
SeedUser ==
    [id |-> 1, email |-> "a@x.io", username |-> "ann",
     password |-> {hash("pw1")}]
UserIds == {1, 9}
\* The ids the callers pass: those of the first two rows.
NotificationIds == {1, 2}

\* INotificationCreate
NotificationCreates ==
    [userId : UserIds, groupName : GroupNames, emails : EmailLists]

\* INotificationCreate as createNotificationGroup() receives it.
NotificationGroupCreates ==
    [userId : UserIds, groupName : GroupNames, emails : {GoodAddress}]

\* INotificationUpdate: each field is optional (a set, empty when absent).
NotificationUpdates ==
    [groupName : {{ }} \cup {{g} : g \in GroupNames},
     emails : {{ }, {GoodAddress}, {GoodAddress \o <<",">> \o NoTldAddress}}]

\* String.prototype.split(',')
RECURSIVE split(_)
split(str) ==
    IF \E i \in 1..Len(str) : str[i] = ","
      THEN LET i == CHOOSE k \in 1..Len(str) :
                      str[k] = "," /\ \A j \in 1..(k - 1) : str[j] # ","
           IN <<SubSeq(str, 1, i - 1)>> \o split(SubSeq(str, i + 1, Len(str)))
      ELSE <<str>>

\* String.prototype.trim()
RECURSIVE trim(_)
trim(str) ==
    IF str = << >> THEN str
    ELSE IF str[1] = " " THEN trim(Tail(str))
    ELSE IF str[Len(str)] = " " THEN trim(SubSeq(str, 1, Len(str) - 1))
    ELSE str

\* /^[^\s@]+@[^\s@]+\.[^\s@]+$/.test(email)
emailRegexTest(email) ==
    \E i \in 2..Len(email) :
        /\ email[i] = "@"
        /\ \A j \in 1..Len(email) : j # i => email[j] \notin {"@", " "}
        /\ \E k \in (i + 2)..(Len(email) - 1) : email[k] = "."

\* emails.split(',').map(trim).filter(e => !emailRegex.test(e))
invalidEmails(emails) ==
    LET emailList == split(emails) IN
    {i \in 1..Len(emailList) : ~emailRegexTest(trim(emailList[i]))}

InvalidEmailFormat == Failure(400, "Invalid email format")

NewCall(op, at, arg) ==
    [op |-> op, pc |-> at, arg |-> arg, trace |-> << >>, user |-> { },
     cause |-> "none", result |-> { }]

\* createNotification(notificationData) up to `await UserModel.findByPk()`.
createNotification(c, notificationData) ==
    /\ NextCall(c)
    /\ calls' = [calls EXCEPT ![c] =
                   NewCall("createNotification", "findUser", notificationData)]
    /\ UNCHANGED <<users, notifications>>
    /\ serviceVarsUnchanged

\* createNotificationGroup(notificationData): the same checks without the
\* e-mail format check.
createNotificationGroup(c, notificationData) ==
    /\ NextCall(c)
    /\ calls' = [calls EXCEPT ![c] =
                   NewCall("createNotificationGroup", "findUser", notificationData)]
    /\ UNCHANGED <<users, notifications>>
    /\ serviceVarsUnchanged

\* findByPk(userId) resolved: 404, or on to the group lookup.
createNotification_userExists(c) ==
    /\ calls[c].op \in {"createNotification", "createNotificationGroup"}
    /\ calls[c].pc = "findUser"
    /\ calls' = [calls EXCEPT ![c] =
                   IF \E u \in users : u.id = calls[c].arg.userId
                     THEN Await(c, "findGroup", "user")
                     ELSE Return(c, Failure(404, "User not found"))]
    /\ UNCHANGED <<users, notifications>>
    /\ serviceVarsUnchanged

\* A createNotification that validates the addresses before it looks at
\* the result of the group lookup.
createNotification_existingGroup_emailsFirst(c) ==
    LET d == calls[c].arg IN
    /\ calls[c].op \in {"createNotification", "createNotificationGroup"}
    /\ calls[c].pc = "findGroup"
    /\ calls' = [calls EXCEPT ![c] =
         IF calls[c].op = "createNotification" /\ invalidEmails(d.emails) # { }
           THEN Return(c, InvalidEmailFormat)
         ELSE IF \E n \in notifications :
                   n.userId = d.userId /\ n.groupName = d.groupName
           THEN Return(c, Failure(409, "Group name already exists for this user"))
         ELSE [Await(c, "insert", "group") EXCEPT
                 !.trace = IF calls[c].op = "createNotification"
                             THEN Append(@, "emails") ELSE @]]
    /\ UNCHANGED <<users, notifications>>
    /\ serviceVarsUnchanged

\* The group lookup resolved: 409; then, in createNotification only, the
\* format check of every address: 400; then NotificationModel.create().
createNotification_existingGroup(c) ==
    LET d == calls[c].arg IN
    /\ calls[c].op \in {"createNotification", "createNotificationGroup"}
    /\ calls[c].pc = "findGroup"
    /\ calls' = [calls EXCEPT ![c] =
         IF \E n \in notifications :
               n.userId = d.userId /\ n.groupName = d.groupName
           THEN Return(c, Failure(409, "Group name already exists for this user"))
         ELSE IF calls[c].op = "createNotification" /\ invalidEmails(d.emails) # { }
           THEN [Return(c, InvalidEmailFormat) EXCEPT !.trace = Append(@, "group")]
         ELSE [Await(c, "insert", "group") EXCEPT
                 !.trace = IF calls[c].op = "createNotification"
                             THEN Append(@, "emails") ELSE @]]
    /\ UNCHANGED <<users, notifications>>
    /\ serviceVarsUnchanged

\* NotificationModel.create() resolved: the row exists, 201.  The table
\* has no unique index on (user_id, group_name).
createNotification_create(c) ==
    LET d == calls[c].arg
        n == [id |-> Cardinality(notifications) + 1, userId |-> d.userId,
              groupName |-> d.groupName, emails |-> d.emails]
    IN
    /\ calls[c].op \in {"createNotification", "createNotificationGroup"}
    /\ calls[c].pc = "insert"
    /\ notifications' = notifications \cup {n}
    /\ calls' = [calls EXCEPT ![c] = Return(c, Success(201, n))]
    /\ UNCHANGED users
    /\ serviceVarsUnchanged

\* updateNotification(notificationId, updateData) up to `await
\* NotificationModel.findByPk(notificationId)`.
updateNotification(c, notificationId, updateData) ==
    /\ NextCall(c)
    /\ calls' = [calls EXCEPT ![c] =
                   NewCall("updateNotification", "findByPk",
                           [id |-> notificationId, updateData |-> updateData])]
    /\ UNCHANGED <<users, notifications>>
    /\ serviceVarsUnchanged

\* updateNotification after its lookups: the format check of the new
\* addresses (when given), then `await NotificationModel.update()`.
updateNotification_emails(c, check) ==
    IF \E e \in calls[c].arg.updateData.emails : invalidEmails(e) # { }
      THEN [Return(c, InvalidEmailFormat) EXCEPT !.trace = Append(@, check)]
      ELSE Await(c, "update", check)

\* findByPk resolved: 404; the group lookup when the name changes.
updateNotification_existing(c) ==
    LET a == calls[c].arg IN
    /\ calls[c].op = "updateNotification"
    /\ calls[c].pc = "findByPk"
    /\ calls' = [calls EXCEPT ![c] =
         IF ~\E n \in notifications : n.id = a.id
           THEN Return(c, Failure(404, "Notification not found"))
         ELSE LET n == CHOOSE n \in notifications : n.id = a.id IN
              IF a.updateData.groupName # { }
                THEN [Await(c, "findGroup", "exists") EXCEPT !.user = {n.userId}]
                ELSE [updateNotification_emails(c, "exists")
                        EXCEPT !.user = {n.userId}]]
    /\ UNCHANGED <<users, notifications>>
    /\ serviceVarsUnchanged

\* The group lookup (same user, same name, another id) resolved: 409.
updateNotification_existingGroup(c) ==
    LET a == calls[c].arg IN
    /\ calls[c].op = "updateNotification"
    /\ calls[c].pc = "findGroup"
    /\ calls' = [calls EXCEPT ![c] =
         IF \E n \in notifications :
               /\ n.userId \in calls[c].user
               /\ n.groupName \in a.updateData.groupName
               /\ n.id # a.id
           THEN Return(c, Failure(409, "Group name already exists for this user"))
           ELSE updateNotification_emails(c, "group")]
    /\ UNCHANGED <<users, notifications>>
    /\ serviceVarsUnchanged

\* The row with the fields of updateData written over it.
Updated(n, updateData) ==
    [n EXCEPT
       !.groupName = IF updateData.groupName = { } THEN @
                     ELSE CHOOSE g \in updateData.groupName : TRUE,
       !.emails = IF updateData.emails = { } THEN @
                  ELSE CHOOSE e \in updateData.emails : TRUE]

\* NotificationModel.update() resolved: 400 when no row was affected,
\* else `await findByPk()` for the updated row.
updateNotification_update(c) ==
    LET a == calls[c].arg IN
    /\ calls[c].op = "updateNotification"
    /\ calls[c].pc = "update"
    /\ notifications' = {IF n.id = a.id THEN Updated(n, a.updateData) ELSE n :
                           n \in notifications}
    /\ calls' = [calls EXCEPT ![c] =
         IF \E n \in notifications : n.id = a.id
           THEN Await(c, "refetch", "update")
           ELSE Return(c, Failure(400, "No changes made"))]
    /\ UNCHANGED users
    /\ serviceVarsUnchanged

\* The second findByPk resolved: 200 with the row.
updateNotification_refetch(c) ==
    /\ calls[c].op = "updateNotification"
    /\ calls[c].pc = "refetch"
    /\ \E n \in notifications :
         /\ n.id = calls[c].arg.id
         /\ calls' = [calls EXCEPT ![c] = Return(c, Success(200, n))]
    /\ UNCHANGED <<users, notifications>>
    /\ serviceVarsUnchanged

\* updateNotificationGroup(notificationId, groupName) up to `await
\* NotificationModel.update({groupName}, {where: {id}})`: no lookup at all.
updateNotificationGroup(c, notificationId, groupName) ==
    /\ NextCall(c)
    /\ calls' = [calls EXCEPT ![c] =
                   NewCall("updateNotificationGroup", "updateGroup",
                           [id |-> notificationId, groupName |-> groupName])]
    /\ UNCHANGED <<users, notifications>>
    /\ serviceVarsUnchanged

\* The update resolved: 404 when no row was affected, else 200.
updateNotificationGroup_update(c) ==
    LET a == calls[c].arg IN
    /\ calls[c].op = "updateNotificationGroup"
    /\ calls[c].pc = "updateGroup"
    /\ notifications' = {IF n.id = a.id THEN [n EXCEPT !.groupName = a.groupName]
                         ELSE n : n \in notifications}
    /\ calls' = [calls EXCEPT ![c] =
         IF \E n \in notifications : n.id = a.id
           THEN Return(c, Success(200, [id |-> a.id, groupName |-> a.groupName]))
           ELSE Return(c, Failure(404, "Notification not found or no changes made"))]
    /\ UNCHANGED users
    /\ serviceVarsUnchanged

\* NotificationService called by request handlers whose calls overlap.
NextNotifications ==
    \E c \in NotificationCalls :
      \/ \E notificationData \in NotificationCreates :
           createNotification(c, notificationData)
      \/ \E notificationData \in NotificationGroupCreates :
           createNotificationGroup(c, notificationData)
      \/ createNotification_userExists(c)
      \/ createNotification_existingGroup(c)
      \/ createNotification_create(c)
      \/ \E id \in NotificationIds, updateData \in NotificationUpdates :
           updateNotification(c, id, updateData)
      \/ updateNotification_existing(c)
      \/ updateNotification_existingGroup(c)
      \/ updateNotification_update(c)
      \/ updateNotification_refetch(c)
      \/ \E id \in NotificationIds, groupName \in GroupNames :
           updateNotificationGroup(c, id, groupName)
      \/ updateNotificationGroup_update(c)
      \/ modelCallRejected(c)

\* The services run in a process whose environment was valid, on a
\* database that holds the user created first.
InitNotifications ==
    /\ InitStore({MainCaller, ModelCaller}, {SeedUser})
    /\ envValid
    /\ nodeEnv = "production"

SpecNotifications == InitNotifications /\ [][NextNotifications]_vars

(***************************************************************************)
(* getUsers(query) / getNotifications(query): pagination                   *)
(***************************************************************************)
MaxPage == 4
MaxLimit == 4
MaxTotal == 9

\* IUserQuery / INotificationQuery: page and limit (the filters and the
\* sort order do not enter the pagination).
PageQueries == [page : 1..MaxPage, limit : 1..MaxLimit]

\* Math.floor(total / limit)
mathCeil_floor(total, limit) == total \div limit

\* Math.ceil(total / limit)
mathCeil(total, limit) ==
    IF total % limit = 0 THEN total \div limit ELSE (total \div limit) + 1

\* The offset handed to findAll and the IPagination object returned.
paginate(query, total) ==
    [offset |-> (query.page - 1) * query.limit,
     pagination |->
        [page |-> query.page, limit |-> query.limit, total |-> total,
         totalPages |-> mathCeil(total, query.limit),
         hasNext |-> query.page < mathCeil(total, query.limit),
         hasPrev |-> query.page > 1]]

\* getUsers(query): count() resolved with total, findAll() with the page.
getUsers(query, total) ==
    /\ pages' = {[op |-> "getUsers", query |-> query, total |-> total,
                   result |-> paginate(query, total)]}
    /\ UNCHANGED <<cfgVars, obsVars, extVars, bootVars, stopVars, pc, failure,
                   stopResult, dbCloseResult, httpListening, dbCloseCalls,
                   dbClosed, events, exit, syncCalls, users, notifications,
                   calls>>

\* getNotifications(query): the same computation over NotificationModel.
getNotifications(query, total) ==
    /\ pages' = {[op |-> "getNotifications", query |-> query, total |-> total,
                   result |-> paginate(query, total)]}
    /\ UNCHANGED <<cfgVars, obsVars, extVars, bootVars, stopVars, pc, failure,
                   stopResult, dbCloseResult, httpListening, dbCloseCalls,
                   dbClosed, events, exit, syncCalls, users, notifications,
                   calls>>

NextPages ==
    \E query \in PageQueries, total \in 0..MaxTotal :
        \/ getUsers(query, total)
        \/ getNotifications(query, total)

SpecPages == InitServices /\ [][NextPages]_vars

\* UserService called by request handlers whose calls overlap.
NextUsers ==
    \E c \in UserCalls :
      \/ \E userData \in UserCreates : createUser(c, userData)
      \/ createUser_existingEmail(c)
      \/ createUser_existingUsername(c)
      \/ createUser_create(c)
      \/ \E credentials \in UserLogins : verifyCredentials(c, credentials)
      \/ verifyCredentials_byEmail(c)
      \/ verifyCredentials_byUsername(c)
      \/ verifyCredentials_compare(c)
      \/ modelCallRejected(c)

SpecUsers == InitServices /\ [][NextUsers]_vars

Next ==
    \/ parseEnv
    \/ \E b \in BootTasks :
         \/ initializeApplication(b)
         \/ authenticateOk(b)
         \/ connectDatabaseFail(b)
         \/ syncOk(b)
         \/ syncFail(b)
         \/ apolloStartOk(b)
         \/ apolloStartFail(b)
         \/ listenOk(b)
         \/ \E code \in ListenErrorCodes : listenFail(b, code)
         \/ \E ok \in BOOLEAN : bootstrapDbCloseDone(b, ok)
    \/ \E t \in Tasks :
         \/ apolloStopOk(t)
         \/ apolloStopFail(t)
         \/ closeCallbackOk(t)
         \/ closeCallbackErr(t)
         \/ watchdogFire(t)
         \/ \E ok \in BOOLEAN : gracefulDbCloseDone(t, ok)
    \/ \E m \in ModelTasks :
         \/ initializeModels(m)
         \/ userSyncOk(m)
         \/ notificationSyncOk(m)
         \/ modelSyncFail(m)
    \/ \E k \in EventKinds : deliver(k)

\* The program together with its observers: HTTP clients and callers of
\* getServerInfo().  They read the lifecycle state and never change it.
NextHttp ==
    \/ Next
    \/ \E req \in Requests : handleRequest(req)
    \/ getServerInfo

\* The program: one initializeApp() at load.
Spec == Init /\ [][Next]_vars

\* The singleton's initializeApplication() called by several callers.
SpecApi == InitApi /\ [][Next]_vars

\* database.ts used on its own: syncDatabase() called with any options.
NextSync ==
    \/ \E options \in SyncOptions : callSyncDatabase(options)
    \/ \E ok \in BOOLEAN : sequelizeSyncSettled(ok)

SpecSync == Init /\ [][NextSync]_vars

\* The program of Spec with several callers of initializeModels().
SpecModels == InitModels /\ [][Next]_vars

\* The program of Spec, serving requests while it runs.
SpecHttp == Init /\ [][NextHttp]_vars

\* setTimeout fires: a timer that is armed does not wait forever.
FairSpec == Spec /\ \A t \in Tasks : WF_vars(watchdogFire(t))

(***************************************************************************)
(* Properties                                                              *)
(***************************************************************************)
InStop(t) == pc[t] \in {"apolloStop", "close"}

\* C1: when stop() is called again while a first call is still in progress,
\* one teardown runs: apolloServer.stop() and httpServer.close() are each
\* called at most once, and the later call returns at the latch without an
\* error (its caller never takes its catch branch: shutdownHandler exits 0,
\* gracefulShutdown goes on to closeDatabase()).
C1_SingleTeardown ==
    /\ apolloStopCalls <= 1
    /\ httpCloseCalls <= 1
    /\ \A t \in MsTasks :
         stopResult[t] = "latched" =>
           exit = [exited |-> TRUE, code |-> 0, by |-> "shutdownHandler"]
    /\ \A t \in AppTasks :
         stopResult[t] = "latched" =>
           /\ pc[t] \in {"dbClose", "killed", "exited"}
           /\ pc[t] = "exited" => exit.code = 0

\* Two stop() calls overlap: one is in its teardown, another returned at the
\* latch.
C1_Witness ==
    \E t1, t2 \in Tasks :
        /\ t1 # t2
        /\ InStop(t1)
        /\ stopResult[t1] = "pending"
        /\ stopResult[t2] = "latched"

SigtermWhenReady ==
    events = <<[kind |-> "SIGTERM", ready |-> TRUE, dbOpen |-> TRUE]>>

\* C2: after a SIGTERM received by the fully started, idle application
\* (no collaborator call failing), the process exits with code 0 only once
\* the database close and the listen-socket close have both completed.
C2_ExitAfterBothClosed ==
    (/\ exit.exited
     /\ exit.code = 0
     /\ SigtermWhenReady
     /\ \A t \in Tasks : dbCloseResult[t] # "failed"
     /\ httpClose # "err")
        => (dbClosed /\ httpClose = "done")

\* C3: once apolloServer.start() has failed inside start(), httpServer.listen
\* is never called and the socket is never bound.
C3_NoListenAfterApolloFailure ==
    \A b \in BootTasks :
        failure[b] = "apolloStart" => (listenCalls = 0 /\ ~httpListening)

\* The sub-server's start failed and the process has run to its exit.
C3_Witness == failure[MainCaller] = "apolloStart" /\ exit.exited

C5_ListeningBetweenStartAndStop ==
    /\ (startResolved /\ stopCalls = 0) => httpListening
    /\ \A t \in Tasks :
         stopResult[t] \in {"closed", "watchdog"} => ~httpListening

\* start() resolved and a later stop() was resolved by the watchdog.
C5_Witness ==
    /\ startResolved
    /\ \E t \in Tasks : stopResult[t] = "watchdog"

\* C6 as stated: no teardown step of stop() is waited for without the
\* watchdog running, so every wait inside stop() is bounded by it.
C6_EveryWaitUnderWatchdog ==
    \A t \in Tasks : InStop(t) => watchdog = "armed"

\* C6 amended: once stop() has reached the socket close (the sub-server's
\* stop has settled and the timer is armed), it settles or the process ends,
\* even if the close callback never comes.
C6_CloseBoundedByWatchdog ==
    \A t \in Tasks : (pc[t] = "close") ~> (pc[t] # "close" \/ exit.exited)

\* stop() is waiting for the close callback with the timer armed.
C6_Witness == \E t \in Tasks : pc[t] = "close" /\ watchdog = "armed"

\* C7: an event received after startup ends the process only through
\* gracefulShutdown(); no other handler exits the process.
C7_OnlyGracefulShutdownExits ==
    (exit.exited /\ Len(events) >= 1 /\ events[1].ready)
        => exit.by = "gracefulShutdown"

\* C8: over any calls of initializeApplication(), the startup sequence
\* (connect, sync, start) runs at most once.
C8_StartupAtMostOnce ==
    /\ startupRuns <= 1
    /\ dbConnectCalls <= 1
    /\ apolloStartCalls <= 1

\* C9: gracefulShutdown() exits with code 0 exactly when stop() returned
\* without error and the database close succeeded; a failed
\* sequelize.close() gives exit code 1.
C9_ExitZeroIffTeardownSucceeded ==
    \A t \in AppTasks :
        (pc[t] = "exited" /\ exit.by = "gracefulShutdown") =>
            (exit.code = 0 <=>
                (Resolved(stopResult[t]) /\ dbCloseResult[t] = "ok"))

\* C10: when the database is unreachable at startup, the process exits
\* non-zero through the bootstrap error path, after closeDatabase() was
\* attempted.
C10_ConnectFailureRunsErrorPath ==
    (failure[MainCaller] = "connect" /\ exit.exited) =>
        /\ dbCloseCalls >= 1
        /\ exit.by = "handleBootstrapError"
        /\ exit.code # 0

\* C11: closeDatabase() is latched like stop(): however many times it is
\* requested in one process, sequelize.close() is issued at most once.
C11_DbCloseAtMostOnce == dbCloseCalls <= 1

IsPrefix(s, t) == Len(s) <= Len(t) /\ s = SubSeq(t, 1, Len(s))

LastStep(b) == IF steps[b] = << >> THEN "none" ELSE steps[b][Len(steps[b])]

\* The steps of initializeApplication() and start() in program order; the
\* schema sync is part of the sequence in development and production only.
StartupOrder(env) ==
    <<"validateConfiguration", "connectDatabase">>
    \o (IF env \in {"development", "production"} THEN <<"syncDatabase">> ELSE << >>)
    \o <<"checkGraphQLReadiness", "monitorServer.start", "apolloServer.start">>
    \o StartSubSteps

SharedHandlers == {"cookieSession", "securityHeaders", "requestLogger", "root", "health"}

\* C12: the sub-steps of start() run in the order sub-server start, shared
\* middleware with '/' and '/health', '/graphql' handlers, catch-all 404,
\* listen: the 404 handler is the last handler of the stack, every shared
\* handler precedes every '/graphql' handler, nothing is installed before
\* the sub-server has started, and listen is called only once the 404
\* handler is installed.
C12_StartSubStepsOrdered ==
    /\ \A i \in 1..Len(stack) : stack[i].name = "notFound" => i = Len(stack)
    /\ \A i, j \in 1..Len(stack) :
         (stack[i].name \in SharedHandlers /\ stack[j].path = "/graphql") => i < j
    /\ stack # << >> =>
         /\ pc[MainCaller] \notin {"idle", "authenticate", "sync", "apolloStart"}
         /\ failure[MainCaller] \notin {"connect", "sync", "apolloStart"}
    /\ (listenCalls > 0 \/ httpListening) =>
         /\ stack # << >>
         /\ stack[Len(stack)].name = "notFound"
         /\ \E i \in 1..Len(stack) : stack[i].name = "expressMiddleware"
         /\ \E i \in 1..Len(stack) : stack[i].name = "health"

C12_Witness ==
    /\ httpListening
    /\ nodeEnv = "development"
    /\ Len(stack) = 9

\* C13: the bootstrap steps begin in the fixed order validate, connect,
\* (sync), readiness, start; while a step is pending no later step has
\* begun, and after a step failed no later step ever begins.
C13_BootstrapStepsOrdered ==
    \A b \in BootTasks :
      /\ IsPrefix(steps[b], StartupOrder(nodeEnv))
      /\ pc[b] = "authenticate" => LastStep(b) = "connectDatabase"
      /\ pc[b] = "sync" => LastStep(b) = "syncDatabase"
      /\ pc[b] = "apolloStart" => LastStep(b) = "apolloServer.start"
      /\ pc[b] = "listen" => LastStep(b) = "httpServer.listen"
      /\ failure[b] = "connect" => LastStep(b) = "connectDatabase"
      /\ failure[b] = "sync" => LastStep(b) = "syncDatabase"
      /\ failure[b] = "apolloStart" => LastStep(b) = "apolloServer.start"
      /\ failure[b] = "listen" => LastStep(b) = "httpServer.listen"

C13_Witness ==
    /\ failure[MainCaller] = "sync"
    /\ exit.exited
    /\ steps[MainCaller] = <<"validateConfiguration", "connectDatabase", "syncDatabase">>

\* C14: the bootstrap error path invokes stop() only when the failure came
\* from start(); after a failure of the database setup (connect or sync)
\* the error path never calls stop().
C14_StopOnlyAfterStartReached ==
    \A b \in BootTasks :
      failure[b] \in {"connect", "sync"} => stopResult[b] = "none"

\* C15 as stated: on every teardown path, graceful shutdown and bootstrap
\* error path alike, closeDatabase() is invoked only once the caller's
\* stop() has been invoked and has settled.
C15_StopSettledBeforeDbClose ==
    \A t \in BootTasks \cup AppTasks :
      dbCloseResult[t] # "none" => stopResult[t] \notin {"none", "pending"}

\* C15 amended: gracefulShutdown() invokes closeDatabase() only once its
\* stop() has resolved; handleBootstrapError() runs the other way round and
\* invokes stop() only once its closeDatabase() has settled.
C15_TeardownOrderPerPath ==
    /\ \A t \in AppTasks :
         dbCloseResult[t] # "none" => Resolved(stopResult[t])
    /\ \A b \in BootTasks :
         stopResult[b] # "none" => dbCloseResult[b] \in {"ok", "failed"}

C15_Witness ==
    /\ \E t \in AppTasks : dbCloseResult[t] = "pending" /\ Resolved(stopResult[t])
    /\ dbCloseCalls = 1

\* C16: the server enters SHUTTING_DOWN (isShuttingDown = TRUE) only after
\* it has reached LISTENING, never from NOT_STARTED or STARTING.
C16_ShuttingDownOnlyAfterListening == isShuttingDown => startResolved

\* The syncs setupDatabase() has issued for this environment.
SetupSyncIssued ==
    nodeEnv \in {"development", "production"} =>
      syncDatabase(nodeEnv, setupDatabaseOptions(nodeEnv)) \in ormSyncs

\* C17: isInitialized is TRUE only when validation, database connect and
\* sync, and start() have all completed successfully; while the startup is
\* in progress and after it failed the flag is FALSE.
C17_InitializedOnlyAfterFullStartup ==
    /\ isInitialized =>
         /\ pc[MainCaller] = "returned"
         /\ failure[MainCaller] = "none"
         /\ steps[MainCaller] = StartupOrder(nodeEnv)
         /\ dbConnectCalls = 1
         /\ SetupSyncIssued
         /\ startResolved
         /\ listenError = "none"
    /\ pc[MainCaller] # "returned" => ~isInitialized
    /\ failure[MainCaller] # "none" => ~isInitialized

C17_Witness == isInitialized /\ nodeEnv = "production" /\ httpListening

\* C18: a call of initializeApplication() made once isInitialized is TRUE
\* only returns: no validation, no database call, no start(), and no
\* lifecycle state changes.
C18_InitializedCallIsNoOp ==
    [][\A b \in BootTasks :
         (isInitialized /\ pc[b] = "idle" /\ pc'[b] # "idle") =>
           /\ pc' = [pc EXCEPT ![b] = "returned"]
           /\ UNCHANGED <<cfgVars, fnVars, obsVars, extVars, bootVars, stopVars, failure,
                          stopResult, dbCloseResult, httpListening,
                          dbCloseCalls, dbClosed, events, exit>>]_vars

C18_Witness ==
    /\ pc[<<"boot", 2>>] = "returned"
    /\ pc[MainCaller] = "returned"
    /\ startupRuns = 1
    /\ isInitialized

\* C19: every schema sync that reaches the ORM has force = FALSE, in every
\* environment and on every path: no table is dropped and recreated.
C19_NoDestructiveSync == \A s \in ormSyncs : ~s.force

ServedRequests ==
    {[method |-> "GET", path |-> "/"], [method |-> "GET", path |-> "/health"]}
    \cup [method : {"GET", "POST", "OPTIONS"}, path : {"/graphql"}]

\* C21: a request to '/', '/health' or '/graphql' with a valid method is
\* answered by a handler installed before the catch-all, in every
\* environment: GET '/' by the root route, GET '/health' by the health
\* route, '/graphql' by one of the GraphQL handlers, never with the 404.
C21_NotFoundNeverTakesServedRoutes ==
    \A r \in lastResponse :
      r.req \in ServedRequests =>
        /\ r.res.by \notin {"notFound", "finalhandler"}
        /\ r.res.status # "404"
        /\ r.req.path = "/" => r.res.by = "root"
        /\ r.req.path = "/health" => r.res.by = "health"
        /\ r.req.path = "/graphql" =>
             r.res.by \in {"graphqlCors", "graphiql", "expressMiddleware"}

C21_Witness ==
    /\ nodeEnv = "production"
    /\ \E r \in lastResponse :
         /\ r.req = [method |-> "POST", path |-> "/graphql"]
         /\ r.res.by = "expressMiddleware"

\* The lifecycle state a read must leave alone.
lifecycleVars ==
    <<cfgVars, extVars, bootVars, stopVars, pc, failure, stopResult,
      dbCloseResult, httpListening, dbCloseCalls, dbClosed, events, exit>>

\* C24: a call of getServerInfo(), made directly or by the '/health'
\* handler in any lifecycle state, returns the current listening and
\* shutting-down flags and changes no lifecycle state (isShuttingDown, the
\* socket's listening state, isInitialized and all the rest).
C24_GetServerInfoIsPureRead ==
    [][(pc' = pc /\ serverInfo' # serverInfo) =>
         /\ serverInfo' = {Snapshot(httpListening, isShuttingDown)}
         /\ UNCHANGED lifecycleVars]_vars

C24_Witness ==
    /\ serverInfo = {Snapshot(FALSE, TRUE)}
    /\ isShuttingDown
    /\ ~isInitialized

\* C25: an invalid environment ends the process in parseEnv() with a
\* non-zero code before anything is acquired and without cleanup: no
\* database connect, no sub-server start, no listen, no closeDatabase(),
\* no stop(); and with an invalid environment none of these ever happens.
C25_InvalidEnvExitsBeforeAnyResource ==
    /\ ~envValid =>
         /\ dbConnectCalls = 0 /\ apolloStartCalls = 0 /\ listenCalls = 0
         /\ ~httpListening
         /\ dbCloseCalls = 0 /\ stopCalls = 0 /\ apolloStopCalls = 0
         /\ steps[MainCaller] = << >>
         /\ exit.exited => (exit.by = "parseEnv" /\ exit.code # 0)
    /\ exit.by = "parseEnv" => ~envValid

C25_Witness == exit.exited /\ exit.by = "parseEnv" /\ exit.code = 1

\* C26: OPTIONS '/graphql' is answered 200 by the CORS middleware of the
\* path, before the GraphQL handlers and the 404 handler; with any other
\* method the CORS middleware passes the request on and a later handler
\* answers.
C26_PreflightAnsweredByCors ==
    \A r \in lastResponse :
      r.req.path = "/graphql" =>
        IF r.req.method = "OPTIONS"
          THEN /\ r.res.by = "graphqlCors"
               /\ r.res.status = "200"
          ELSE /\ "graphqlCors" \in r.res.passed
               /\ r.res.by \in {"graphiql", "expressMiddleware"}

C26_Witness ==
    \E r \in lastResponse :
      /\ r.req = [method |-> "OPTIONS", path |-> "/graphql"]
      /\ r.res.status = "200"

Settled(r) == r \notin {"none", "pending"}

C23_ForcedShutdownClosesDbExitsZero ==
    (exit.exited /\ \E t \in Tasks : stopResult[t] = "watchdog") =>
      /\ exit.code = 0
      /\ \E a \in AppTasks : dbCloseResult[a] \in {"ok", "failed"}

\* C27: a stop() call resolves only when the teardown is finished: no
\* apolloServer.stop() is still pending and the socket close has completed
\* or the watchdog has fired.
C27_ResolvedStopMeansTeardownFinished ==
    \A t \in Tasks :
      Resolved(stopResult[t]) =>
        /\ \A u \in Tasks : pc[u] \notin {"apolloStop", "close"}
        /\ httpClose = "done" \/ watchdog = "fired"

\* C28: when a signal arrives during initializeApplication(), with the
\* database connection open and the entry point's handlers not yet
\* registered, the process exits only after closeDatabase() has run to its
\* end.
C28_EarlySignalStillClosesDb ==
    (/\ exit.exited
     /\ events # << >>
     /\ events[1].dbOpen
     /\ ~events[1].ready) =>
      \E t \in Tasks : dbCloseResult[t] \in {"ok", "failed"}

\* C29: isShuttingDown, once set, is never reset, whatever the outcome of
\* the stop() that set it; every stop() call made while it is set returns
\* at the guard with success and performs no teardown step.
C29_LatchIsPermanent ==
    [][isShuttingDown =>
         /\ isShuttingDown'
         /\ stopCalls' > stopCalls =>
              /\ apolloStopCalls' = apolloStopCalls
              /\ httpCloseCalls' = httpCloseCalls
              /\ \A t \in Tasks :
                   stopResult'[t] # stopResult[t] => stopResult'[t] = "latched"]_vars

C29_Witness ==
    /\ isShuttingDown
    /\ stopCalls = 2
    /\ apolloStopCalls = 1
    /\ \E t \in BootTasks : stopResult[t] = "latched"

\* C30: after a startup failure that reached handleBootstrapError() the
\* process never exits with code 0, whatever the cleanup steps do.
C30_FailedStartupNeverExitsZero ==
    \A b \in BootTasks :
      (failure[b] \in {"sync", "apolloStart", "listen"} /\ exit.exited) =>
        exit.code = 1

(***************************************************************************)
(* C31: fatal-error events and the exit code                               *)
(***************************************************************************)
FatalKinds == {"uncaughtException", "unhandledRejection"}

\* The startup has not failed and every event delivered so far is an
\* uncaughtException or an unhandledRejection.
FatalEventsOnly ==
    /\ events # << >>
    /\ \A i \in 1..Len(events) : events[i].kind \in FatalKinds
    /\ \A b \in BootTasks : failure[b] = "none"

\* Some stop() of the teardown has rejected.
TeardownFailed == \E t \in Tasks : stopResult[t] \in {"apolloErr", "closeErr"}

\* C31: a process that exits after uncaughtException / unhandledRejection
\* events (no signal, no startup failure) exits with code 1 exactly when a
\* stop() of the teardown rejected, and with code 0 otherwise, which is the
\* code of a signal-initiated shutdown whose teardown succeeded.
C31_FatalEventExitsZeroUnlessTeardownFails ==
    (FatalEventsOnly /\ exit.exited) =>
        /\ exit.by \in {"shutdownHandler", "gracefulShutdown"}
        /\ (exit.code = 1) <=> TeardownFailed
        /\ (exit.code = 0) <=> ~TeardownFailed

C31_Witness ==
    /\ FatalEventsOnly
    /\ events[1].ready
    /\ exit = [exited |-> TRUE, code |-> 0, by |-> "gracefulShutdown"]
    /\ dbCloseResult[<<"app", 1>>] = "ok"

(***************************************************************************)
(* C32: initializeModels() and double sync                                 *)
(***************************************************************************)
\* C32: once a call of initializeModels() has succeeded (the guard flag is
\* set) no further Model.sync() is issued, whatever the interleaving of the
\* calls.
C32_NoSyncAfterSuccess ==
    [][modelsInitialized => modelSyncs' = modelSyncs]_vars

(***************************************************************************)
(* C39: syncDatabase() and force                                           *)
(***************************************************************************)
\* C39: a syncDatabase() call with force = true in production throws with
\* nothing issued to the ORM, and in every environment a sync that reaches
\* the ORM has force = true only if the caller passed force = true.
C39_ForceRefusedInProductionAndNeverInvented ==
    /\ \A i \in 1..Len(syncCalls) :
          LET c == syncCalls[i] IN
          /\ (nodeEnv = "production" /\ c.options.force = "true") =>
                (c.outcome = "threw" /\ c.issued = { })
          /\ \A s \in c.issued : s.force => c.options.force = "true"
    /\ \A s \in ormSyncs : \E i \in 1..Len(syncCalls) : s \in syncCalls[i].issued
    /\ (nodeEnv = "production") => \A s \in ormSyncs : ~s.force

C39_Witness ==
    /\ nodeEnv = "production"
    /\ Len(syncCalls) = 2
    /\ syncCalls[1].options.force = "true"
    /\ syncCalls[1].outcome = "threw"
    /\ syncCalls[2].outcome = "resolved"
    /\ ormSyncs # { }

(***************************************************************************)
(* C34: createUser and taken e-mails / usernames                           *)
(***************************************************************************)
\* C34: whatever the interleaving, a createUser call that creates no user
\* because its e-mail or username is already taken (no model call of its
\* own failed for another reason) returns 409 with 'Email already exists'
\* or 'Username already exists'.
C34_TakenIsReportedAs409 ==
    \A c \in UserCalls :
        (/\ calls[c].op = "createUser"
         /\ Returned(c)
         /\ ~ResultOf(c).success
         /\ calls[c].cause # "fault")
        => ResultOf(c) \in {Failure(409, "Email already exists"),
                            Failure(409, "Username already exists")}

(***************************************************************************)
(* C38: verifyCredentials and unknown identifiers                          *)
(***************************************************************************)
InvalidCredentials == Failure(401, "Invalid credentials")

\* Both lookups of the call found no user.
NoMatch(c) ==
    /\ calls[c].trace # << >>
    /\ calls[c].trace[Len(calls[c].trace)] = "username: null"

\* The call found a user that has a password, and the password given is
\* not that user's.
WrongPassword(c) ==
    \E u \in calls[c].user :
        /\ u.password # { }
        /\ \A h \in u.password : ~compare(calls[c].arg.password, h)

\* The lookups a verifyCredentials call may have made, in order: by e-mail
\* first, by username only after the e-mail lookup returned no success.
LookupOrders ==
    {<<"email">>, <<"email: 404">>, <<"email: 500">>,
     <<"email: 404", "username">>, <<"email: 500", "username">>,
     <<"email: 404", "username: null">>, <<"email: 500", "username: null">>}

\* C38: a verifyCredentials call that matched no user and one that matched
\* a password-bearing user but was given a wrong password return the same
\* result, {success: false, error: 'Invalid credentials', statusCode: 401};
\* every call looks the identifier up by e-mail first and by username only
\* when the e-mail lookup did not succeed.
C38_UnknownIdentifierLooksLikeWrongPassword ==
    \A c \in UserCalls :
        calls[c].op = "verifyCredentials" =>
          /\ calls[c].trace = << >> \/ calls[c].trace \in LookupOrders
          /\ (Returned(c) /\ (NoMatch(c) \/ WrongPassword(c)))
                => ResultOf(c) = InvalidCredentials

C38_Witness ==
    /\ calls[1].op = "createUser"
    /\ Returned(1)
    /\ ResultOf(1).success
    /\ calls[2].op = "verifyCredentials"
    /\ Returned(2)
    /\ calls[2].arg.identifier = "ann"
    /\ calls[2].trace = <<"email: 404", "username">>
    /\ WrongPassword(2)
    /\ ResultOf(2) = InvalidCredentials

(***************************************************************************)
(* C36: failures are values with statusCode 500                            *)
(***************************************************************************)
\* C36: a service call during which a model call rejected returns
\* success = false with statusCode 500, and every result has success =
\* true exactly when its statusCode is 200 or 201.
C36_ModelRejectionReturns500 ==
    \A c \in ServiceCalls :
        Returned(c) =>
          /\ ResultOf(c).success <=> ResultOf(c).statusCode \in {200, 201}
          /\ calls[c].cause = "fault" =>
                (~ResultOf(c).success /\ ResultOf(c).statusCode = 500)

(***************************************************************************)
(* C33: group names per user                                               *)
(***************************************************************************)
\* C33: after any interleaving of createNotification,
\* createNotificationGroup, updateNotification and updateNotificationGroup
\* calls, no user owns two notifications with the same groupName.
C33_GroupNamesUniquePerUser ==
    \A n1, n2 \in notifications :
        (n1.userId = n2.userId /\ n1.groupName = n2.groupName) => n1 = n2

(***************************************************************************)
(* C35: createNotification's checks                                        *)
(***************************************************************************)
\* The checks a createNotification call has passed when it returns result
\* r: none for 404, the user check for 409, user and group for 400, all
\* three for 201.
ChecksBefore(r) ==
    CASE r.statusCode = 404 -> << >>
      [] r.statusCode = 409 -> <<"user">>
      [] r.statusCode = 400 -> <<"user", "group">>
      [] r.statusCode = 201 -> <<"user", "group", "emails">>
      [] OTHER -> << >>

\* C35: a createNotification call returns 404, 409 or 400 only after the
\* checks before it, in the order user, group name, e-mail format, have
\* passed, the insert follows all three, and the step that returns one of
\* these failures leaves the store as it was, no row of the call in it.
C35_ChecksInOrderAndFailuresInsertNothing ==
    [][\A c \in NotificationCalls :
         (/\ calls[c].op = "createNotification"
          /\ calls[c].pc # "returned"
          /\ calls'[c].pc = "returned"
          /\ calls'[c].cause # "fault")
         => LET r == CHOOSE r \in calls'[c].result : TRUE IN
            /\ r.statusCode \in {404, 409, 400, 201}
            /\ calls'[c].trace = ChecksBefore(r)
            /\ r.success <=> notifications' # notifications
            /\ ~r.success => users' = users
            /\ (r.statusCode = 400) <=>
                  (calls[c].pc = "findGroup" /\ invalidEmails(calls[c].arg.emails) # { }
                   /\ calls'[c].trace = <<"user", "group">>)]_vars

C35_Witness ==
    \E c \in NotificationCalls :
        /\ calls[c].op = "createNotification"
        /\ Returned(c)
        /\ ResultOf(c) = InvalidEmailFormat
        /\ calls[c].trace = <<"user", "group">>
        /\ notifications # { }
        /\ \A n \in notifications : n.emails # calls[c].arg.emails

(***************************************************************************)
(* C37: pagination                                                         *)
(***************************************************************************)
\* C37: for page >= 1, limit >= 1 and total >= 0 the pagination returned
\* by getUsers and getNotifications has totalPages = ceil(total / limit)
\* (the least n with n * limit >= total), hasPrev = (page > 1), hasNext =
\* (page * limit < total), and the query offset is (page - 1) * limit.
C37_PaginationArithmetic ==
    \A p \in pages :
        LET q == p.query
            pg == p.result.pagination
        IN
        /\ pg.totalPages * q.limit >= p.total
        /\ pg.totalPages = 0 \/ (pg.totalPages - 1) * q.limit < p.total
        /\ pg.hasPrev <=> q.page > 1
        /\ pg.hasNext <=> q.page * q.limit < p.total
        /\ p.result.offset = (q.page - 1) * q.limit
        /\ pg.page = q.page /\ pg.limit = q.limit /\ pg.total = p.total

C37_Witness ==
    \E p \in pages :
        /\ p.op = "getNotifications"
        /\ p.query = [page |-> 2, limit |-> 3]
        /\ p.total = 7
        /\ p.result.pagination.totalPages = 3
        /\ p.result.pagination.hasNext
        /\ p.result.offset = 3

=============================================================================
